---- MODULE Spec2Model ----
(***************************************************************************)
(* Model of the fragility computation engine of ACCLIMATE                  *)
(* (backend/fragility/fragility_computer.py): the distribution evaluator,  *)
(* the per-grid reduction, the series combination over the HBOM tree and   *)
(* the time-series extraction.                                             *)
(*                                                                         *)
(* Floating point.  A probability is an IEEE double.  The model holds the  *)
(* doubles the bounded inputs can produce, each exactly:                   *)
(*   [c |-> "num", n, k]   the dyadic rational n / 2^k (n odd or k = 0),   *)
(*   [c |-> "tiny", ...]   the double expit(-100.0) = 3.72e-44, the one    *)
(*                         positive double below 2^-54 the inputs produce, *)
(*   [c |-> "nan", ...]    NaN.                                            *)
(* On these values every operation of the code is exact except 1.0 - tiny, *)
(* which IEEE rounds to 1.0; OneMinus models that rounding.                *)
(*                                                                         *)
(* Parameters of a fragility binding are held in tenths (slope 0.5 is 5),  *)
(* climate intensities in units, logarithms and z scores in thousandths.   *)
(***************************************************************************)
EXTENDS Integers, Sequences, FiniteSets, TLC

(***************************************************************************)
(* Bounds of the model.                                                    *)
(***************************************************************************)
MaxNodes == 3
MaxGrids == 2
MaxTimes == 2
MaxCalls == 2

(***************************************************************************)
(* Doubles.                                                                *)
(***************************************************************************)
RECURSIVE Pow2(_)
Pow2(k) == IF k = 0 THEN 1 ELSE 2 * Pow2(k - 1)

RECURSIVE Norm(_, _)
Norm(n, k) ==
    IF k > 0 /\ n % 2 = 0 THEN Norm(n \div 2, k - 1)
    ELSE [c |-> "num", n |-> n, k |-> k]

Zero == [c |-> "num", n |-> 0, k |-> 0]
One  == [c |-> "num", n |-> 1, k |-> 0]
Half == [c |-> "num", n |-> 1, k |-> 1]
Tiny == [c |-> "tiny", n |-> 0, k |-> 0]
NaN  == [c |-> "nan", n |-> 0, k |-> 0]

IsNaN(a) == a.c = "nan"

\* Python's a > b on doubles: False as soon as one side is NaN.
Gt(a, b) ==
    CASE IsNaN(a) \/ IsNaN(b) -> FALSE
      [] a.c = "tiny" -> b.c = "num" /\ b.n = 0
      [] b.c = "tiny" -> a.n > 0
      [] OTHER -> a.n * Pow2(b.k) > b.n * Pow2(a.k)

\* 1.0 - a, rounded to nearest: 1.0 - tiny is 1.0.
OneMinus(a) ==
    CASE IsNaN(a) -> NaN
      [] a.c = "tiny" -> One
      [] OTHER -> Norm(Pow2(a.k) - a.n, a.k)

\* a * b.
Mul(a, b) ==
    CASE IsNaN(a) \/ IsNaN(b) -> NaN
      [] a.c = "tiny" -> IF b.c = "num" /\ b.n = 0 THEN Zero ELSE Tiny
      [] b.c = "tiny" -> IF a.n = 0 THEN Zero ELSE Tiny
      [] OTHER -> Norm(a.n * b.n, a.k + b.k)

\* 0.0 <= a <= 1.0 and a is neither NaN nor infinite.
InUnit(a) == a.c = "tiny" \/ (a.c = "num" /\ 0 <= a.n /\ a.n <= Pow2(a.k))


(***************************************************************************)
(* Inputs: climate series and fragility bindings.                          *)
(***************************************************************************)
\* None inside a climate series; np.array(..., dtype=float) turns it into NaN.
Null == -1

\* The intensities the climate series are drawn from.
Intensities == {0, 200, 2000}

EmptyMap == [v \in {} |-> Zero]
NoParams == [p \in {} |-> 0]

\* dict.get(key, default)
Get(d, key, default) == IF key \in DOMAIN d THEN d[key] ELSE default

\* The value stored under a key of a grid cell's "climate": None or a list.
SNone == [isNone |-> TRUE, vals |-> <<>>]
SList(s) == [isNone |-> FALSE, vals |-> s]

(***************************************************************************)
(* Distribution evaluator (_compute_distribution_curve).                   *)
(***************************************************************************)
DefaultMedian == 1000
DefaultDispersion == 3
DefaultShape == 20
DefaultScale == 1000
DefaultMidPoint == 500
DefaultSlope == 5

\* np.log(x + 1e-9) in thousandths, on the intensities.
LnEps(v) ==
    CASE v = 0 -> -20723
      [] v = 200 -> 5298
      [] v = 2000 -> 7601

\* np.log(median) in thousandths, the median in tenths and positive.
LnParam(m) ==
    CASE m = 100 -> 2303
      [] m = 1000 -> 4605

\* norm.cdf(z), z in thousandths, where the double result is exact:
\* 0.5 at 0, 1.0 from 9 upwards (1 - cdf is below 2^-54), 0.0 below -40
\* (the tail underflows).
NormCdf(zm) ==
    CASE zm = 0 -> Half
      [] zm >= 9000 -> One
      [] zm =< -40000 -> Zero

\* expit(a) = 1 / (1 + exp(-a)), a in hundredths, where the double is exact:
\* 0.5 at 0, 1.0 from 40 upwards, 0.0 from -710 downwards (exp overflows),
\* and the tiny double at -100.
Expit(a) ==
    CASE a = 0 -> Half
      [] a >= 4000 -> One
      [] a =< -71000 -> Zero
      [] a = -10000 -> Tiny

RECURSIVE IntPow(_, _)
IntPow(b, e) == IF e = 0 THEN 1 ELSE b * IntPow(b, e - 1)

\* -expm1(-y) for y = r^s, where the double is exact: 1.0 from y = 100 upwards.
WeibullTail(r, s) ==
    CASE IntPow(r, s) >= 100 -> One

LognormalAt(params, v) ==
    IF v = Null THEN NaN
    ELSE IF "mu" \in DOMAIN params /\ "sigma" \in DOMAIN params
    THEN NormCdf(((LnEps(v) - 100 * params["mu"]) * 10) \div params["sigma"])
    ELSE LET median == Get(params, "median", DefaultMedian)
             dispersion == Get(params, "dispersion", DefaultDispersion)
         IN  IF median < 0 THEN NaN
             ELSE NormCdf(((LnEps(v) - LnParam(median)) * 10) \div dispersion)

\* rv_continuous.cdf: NaN for invalid shape or scale and for a NaN input,
\* 0.0 at and below the lower end of the support.
WeibullAt(params, v) ==
    LET shape == Get(params, "shape", DefaultShape)
        scale == Get(params, "scale", DefaultScale)
    IN  IF ~(shape > 0 /\ scale > 0) THEN NaN
        ELSE IF v = Null THEN NaN
        ELSE IF v =< 0 THEN Zero
        ELSE WeibullTail((10 * v) \div scale, shape \div 10)

LogisticAt(params, v) ==
    LET mid_pt == Get(params, "mid_point", DefaultMidPoint)
        slope == Get(params, "slope", DefaultSlope)
    IN  IF v = Null THEN NaN
        ELSE Expit(slope * (10 * v - mid_pt))

\* Mutant of _compute_distribution_curve: an unknown model name yields 0.5.
_compute_distribution_curve_UnknownHalf(model_name, params, climate_array) ==
    [t \in 1..Len(climate_array) |->
        CASE model_name = "lognormal" -> LognormalAt(params, climate_array[t])
          [] model_name = "weibull" -> WeibullAt(params, climate_array[t])
          [] model_name = "logistic" -> LogisticAt(params, climate_array[t])
          [] OTHER -> Half]

_compute_distribution_curve(model_name, params, climate_array) ==
    [t \in 1..Len(climate_array) |->
        CASE model_name = "lognormal" -> LognormalAt(params, climate_array[t])
          [] model_name = "weibull" -> WeibullAt(params, climate_array[t])
          [] model_name = "logistic" -> LogisticAt(params, climate_array[t])
          [] OTHER -> Zero]

(***************************************************************************)
(* State.  A request works on its own tree and its own prepared dataset.   *)
(*   nNodes, parent, hazards : the HBOM forest; node u's uuid is u, its    *)
(*       subcomponents are the nodes whose parent is u in ascending order  *)
(*       (0 is the "components" list of roots), hazards[u] its binding     *)
(*       for the requested hazard;                                         *)
(*   hazards_dict : the rest of node u's "hazards" map: whether the node   *)
(*       has the key "hazards", the bindings of the other hazards by       *)
(*       name, and whether setdefault put the map there;                   *)
(*   hbom_tree : the identity of the tree object the caller passed;        *)
(*   returned : the identity of the object compute_for_tree returned;      *)
(*   climate_vars, nTimes, all_grid_data : prepared_data's "variables",    *)
(*       the length of "times", and "data";                                *)
(*   fragility_curves, pof_by_var, pof : what the computation writes on    *)
(*       the nodes; has_curves, has_pof hold the nodes that have the key;  *)
(*   own_pof_by_var : the local pof_by_var of the leaf computation;        *)
(*   stack : the frames of _compute_for_component under execution;         *)
(*   dist_calls : the (node, variable, grid) triples for which             *)
(*       _compute_distribution_curve was called;                           *)
(*   frag_ts : the map compute_timeseries returns;                         *)
(*   status : where the request is;                                        *)
(*   earlier : the datasets of the calls the tree was annotated by before  *)
(*       the current one.                                                  *)
(***************************************************************************)
VARIABLES nNodes, parent, hazards, climate_vars, nTimes, all_grid_data,
          fragility_curves, has_curves, pof_by_var, own_pof_by_var, pof,
          has_pof, stack, dist_calls, frag_ts, status, earlier,
          hazards_dict, hbom_tree, returned

(***************************************************************************)
(* The state of one reconstruction of an HBOM tree (hbom_preparers.py):    *)
(*   flat_nodes, curve_docs : the arguments flat_nodes and                 *)
(*       fragility_curves of reconstruct_tree;                             *)
(*   node_map : uuid -> the node object built for it;                      *)
(*   roots : the list reconstruct_tree returned, as uuids;                 *)
(*   filter_hazard : the hazard the returned roots were filtered with;     *)
(*   hbom_status : where the reconstruction is.                            *)
(***************************************************************************)
VARIABLES flat_nodes, curve_docs, node_map, roots, filter_hazard,
          hbom_status

hbomVars ==
    <<flat_nodes, curve_docs, node_map, roots, filter_hazard, hbom_status>>

fragilityVars ==
    <<nNodes, parent, hazards, climate_vars, nTimes, all_grid_data,
      fragility_curves, has_curves, pof_by_var, own_pof_by_var, pof,
      has_pof, stack, dist_calls, frag_ts, status, earlier,
      hazards_dict, hbom_tree, returned>>

(***************************************************************************)
(* The state of the two-tier cache (cache_manager.py) and of the last      *)
(* request answered from it:                                               *)
(*   cache_data : the in-memory LRUCache's entries [h, obj], in the order  *)
(*       its keys are iterated in;                                         *)
(*   cache_order : its keys from the least to the most recently used;      *)
(*   cache_disk : hash -> the object pickled in the file of that hash;     *)
(*   plain_map : <<kind, key_tuple>> -> the object of the last set since   *)
(*       the last clear;                                                   *)
(*   reply : the last operation or request and what it returned;           *)
(*   pending : the fragility requests that read the cache and wait for     *)
(*       the HBOM tree;                                                    *)
(*   handled : the number of requests begun.                               *)
(***************************************************************************)
VARIABLES cache_data, cache_order, cache_disk, plain_map, reply, pending,
          handled

cacheVars ==
    <<cache_data, cache_order, cache_disk, plain_map, reply, pending, handled>>

vars == <<fragilityVars, hbomVars, cacheVars>>

inputs == <<nNodes, parent, hazards, climate_vars, nTimes, all_grid_data>>

Nodes == 1..nNodes

\* component.get("subcomponents", []) as a sequence of nodes.
Subcomponents(u) ==
    SelectSeq([i \in 1..nNodes |-> i], LAMBDA i : parent[i] = u)

RECURSIVE Ancestors(_, _)
Ancestors(par, u) == IF u = 0 THEN {} ELSE {par[u]} \cup Ancestors(par, par[u])

\* The forests of n nodes, the nodes numbered in pre-order.
Forests(n) ==
    {par \in [1..n -> 0..(n - 1)] :
        \A i \in 1..n :
            /\ par[i] < i
            /\ i > 1 => par[i] \in ({i - 1} \cup Ancestors(par, i - 1))}

(***************************************************************************)
(* Python's max over a sequence: keep the first, replace it by a later     *)
(* element only when that one compares greater.                            *)
(***************************************************************************)
RECURSIVE PyMaxFrom(_, _, _)
PyMaxFrom(best, s, i) ==
    IF i > Len(s) THEN best
    ELSE PyMaxFrom(IF Gt(s[i], best) THEN s[i] ELSE best, s, i + 1)

PyMax(s) == PyMaxFrom(s[1], s, 2)

\* math.prod over a sequence of doubles: a left fold starting at 1.
RECURSIVE ProdFrom(_, _, _)
ProdFrom(acc, s, i) ==
    IF i > Len(s) THEN acc ELSE ProdFrom(Mul(acc, s[i]), s, i + 1)

Prod(s) == ProdFrom(One, s, 1)

\* The orders in which a dict built from a set of strings can be iterated.
Orders(S) ==
    {o \in [1..Cardinality(S) -> S] :
        \A i, j \in 1..Cardinality(S) : i # j => o[i] # o[j]}

(***************************************************************************)
(* _compute_for_component, step 1: the leaf computation.                   *)
(***************************************************************************)
\* Mutant of Evaluates: "inherit" is evaluated like any other model name.
EvaluatesInherit(hazard_data) ==
    hazard_data.present /\ hazard_data.fragility_model # ""

\* hazard_data and hazard_data.get("fragility_model"), and not "inherit".
Evaluates(hazard_data) ==
    /\ hazard_data.present
    /\ hazard_data.fragility_model # ""
    /\ hazard_data.fragility_model # "inherit"

\* Mutant of TargetVars: climate_variable is ignored.
TargetVarsAll(hazard_data) == climate_vars

\* The variables of the dataset the binding's curve applies to, in order.
TargetVars(hazard_data) ==
    SelectSeq(climate_vars,
              LAMBDA var_name :
                  ~(/\ hazard_data.climate_variable # ""
                    /\ var_name # hazard_data.climate_variable))

\* grid_obj.get("climate", {}).get(var_name, [])
ClimateArray(grid_obj, var_name) == Get(grid_obj.climate, var_name, SList(<<>>))

\* Mutant of IsEmptyArray: only None counts as no data.
IsEmptyArrayNoneOnly(climate_array) == climate_array.isNone

\* not climate_array
IsEmptyArray(climate_array) == climate_array.isNone \/ climate_array.vals = <<>>

\* Mutant of GridCurve: no one-point fallback for a missing or empty series.
GridCurveNoFallback(hazard_data, grid_obj, var_name) ==
    LET climate_array == ClimateArray(grid_obj, var_name)
        fc_values == IF IsEmptyArray(climate_array) THEN <<>>
                     ELSE _compute_distribution_curve(
                              hazard_data.fragility_model,
                              hazard_data.fragility_params,
                              climate_array.vals)
        x_vals == IF IsEmptyArray(climate_array) THEN <<>>
                  ELSE climate_array.vals
    IN  [x_values |-> x_vals,
         fc_values |-> fc_values,
         final_pof |-> IF fc_values # <<>> THEN fc_values[Len(fc_values)]
                       ELSE Zero]

\* The record stored at curves_by_var[var_name][g_idx].
GridCurve(hazard_data, grid_obj, var_name) ==
    LET climate_array == ClimateArray(grid_obj, var_name)
        fc_values == IF IsEmptyArray(climate_array) THEN <<Zero>>
                     ELSE _compute_distribution_curve(
                              hazard_data.fragility_model,
                              hazard_data.fragility_params,
                              climate_array.vals)
        x_vals == IF IsEmptyArray(climate_array) THEN <<0>>
                  ELSE climate_array.vals
    IN  [x_values |-> x_vals,
         fc_values |-> fc_values,
         final_pof |-> IF fc_values # <<>> THEN fc_values[Len(fc_values)]
                       ELSE Zero]

\* curves_by_var: variable -> grid (g_idx + 1) -> curve record.
CurvesByVar(hazard_data) ==
    [var_name \in {TargetVars(hazard_data)[i] :
                       i \in 1..Len(TargetVars(hazard_data))} |->
        [g \in 1..Len(all_grid_data) |->
            GridCurve(hazard_data, all_grid_data[g], var_name)]]

\* Mutant of MaxPof: the first grid cell stands for all.
MaxPofFirstGrid(grids) ==
    IF Len(grids) > 0 THEN grids[1].final_pof ELSE Zero

\* Max PoF across all grids for one variable.
MaxPof(grids) ==
    IF Len(grids) > 0 THEN PyMax([g \in 1..Len(grids) |-> grids[g].final_pof])
    ELSE Zero

\* The local pof_by_var of the leaf computation.
OwnPofByVar(curves_by_var) ==
    [var_name \in DOMAIN curves_by_var |-> MaxPof(curves_by_var[var_name])]

\* The calls of _compute_distribution_curve the leaf computation of u makes.
DistCalls(u, hazard_data) ==
    {c \in {u} \X (DOMAIN CurvesByVar(hazard_data)) \X (1..Len(all_grid_data)) :
        ~IsEmptyArray(ClimateArray(all_grid_data[c[3]], c[2]))}

(***************************************************************************)
(* _compute_for_component, step 3: series combination.                     *)
(***************************************************************************)
\* Mutant of CombinedPof: the component's own PoF is left out.
CombinedPofChildrenOnly(own_pof, child_var_pofs) ==
    OneMinus(Prod([i \in 1..Len(child_var_pofs) |->
                      OneMinus(child_var_pofs[i])]))

CombinedPof(own_pof, child_var_pofs) ==
    LET product_of_survival ==
            Prod([i \in 1..Len(child_var_pofs) |-> OneMinus(child_var_pofs[i])])
        child_combined_pof == OneMinus(product_of_survival)
        combined_survival ==
            Mul(OneMinus(own_pof), OneMinus(child_combined_pof))
    IN  OneMinus(combined_survival)

CombinedPofByVar(own, child_pofs) ==
    LET all_vars == DOMAIN own
                    \cup UNION {DOMAIN child_pofs[i] : i \in 1..Len(child_pofs)}
    IN  [var_name \in all_vars |->
            CombinedPof(Get(own, var_name, Zero),
                        [i \in 1..Len(child_pofs) |->
                            Get(child_pofs[i], var_name, Zero)])]

\* Mutant of TopLevelPof: the first variable's value is taken.
TopLevelPofFirst(combined, o) ==
    IF DOMAIN combined # {} THEN combined[o[1]] ELSE Zero

\* max(combined_pof_by_var.values()) with the values met in order o.
TopLevelPof(combined, o) ==
    IF DOMAIN combined # {} THEN PyMax([i \in 1..Len(o) |-> combined[o[i]]])
    ELSE Zero

(***************************************************************************)
(* compute_for_tree and the recursion of _compute_for_component.           *)
(***************************************************************************)
Top == stack[Len(stack)]

\* The identity of no object: compute_for_tree has not returned.
NoRef == 0

\* A node's "hazards" map without the entry of the requested hazard.
HazardsMap(present, others) ==
    [present |-> present, others |-> others, created |-> FALSE]

\* Mutant of setdefault: the node gets a new map that holds the requested
\* hazard's binding alone.
setdefault_fresh(hazards_map) ==
    [hazards_map EXCEPT
        !.present = TRUE,
        !.others = EmptyMap,
        !.created = @ \/ ~hazards_map.present]

\* component.setdefault("hazards", {}): a node without the key gets an
\* empty map, any other node keeps the map it has.
setdefault(hazards_map) ==
    [hazards_map EXCEPT
        !.present = TRUE,
        !.created = @ \/ ~hazards_map.present]

Frame(u) == [node |-> u, next |-> 1, child_pofs |-> <<>>]

\* compute_for_tree is called: the loop over the roots starts.
Start ==
    /\ status = "idle"
    /\ status' = "running"
    /\ stack' = <<Frame(0)>>
    /\ UNCHANGED <<hbomVars, cacheVars, earlier>>
    /\ UNCHANGED <<hazards_dict, hbom_tree, returned>>
    /\ UNCHANGED <<inputs, fragility_curves, has_curves, pof_by_var,
                   own_pof_by_var, pof, has_pof, dist_calls, frag_ts>>

\* Mutant of Enter: a component that already carries fragility_curves from
\* an earlier call keeps them and takes its own PoF from them.
EnterMemo ==
    /\ status = "running"
    /\ stack # <<>>
    /\ Top.next =< Len(Subcomponents(Top.node))
    /\ LET component == Subcomponents(Top.node)[Top.next]
           hazard_data == hazards[component]
           curves_by_var == IF component \in has_curves
                            THEN fragility_curves[component]
                            ELSE CurvesByVar(hazard_data)
       IN  /\ IF Evaluates(hazard_data)
              THEN /\ fragility_curves' =
                          [fragility_curves EXCEPT ![component] = curves_by_var]
                   /\ has_curves' = has_curves \cup {component}
                   /\ pof_by_var' =
                          [pof_by_var EXCEPT
                              ![component] = OwnPofByVar(curves_by_var)]
                   /\ own_pof_by_var' =
                          [own_pof_by_var EXCEPT
                              ![component] = OwnPofByVar(curves_by_var)]
                   /\ dist_calls' =
                          dist_calls \cup DistCalls(component, hazard_data)
              ELSE /\ pof_by_var' = [pof_by_var EXCEPT ![component] = EmptyMap]
                   /\ own_pof_by_var' =
                          [own_pof_by_var EXCEPT ![component] = EmptyMap]
                   /\ UNCHANGED <<fragility_curves, has_curves, dist_calls>>
           /\ hazards_dict' =
                  [hazards_dict EXCEPT ![component] = setdefault(@)]
           /\ stack' = Append(stack, Frame(component))
    /\ UNCHANGED <<hbomVars, cacheVars, earlier, hbom_tree, returned>>
    /\ UNCHANGED <<inputs, pof, has_pof, frag_ts, status>>

\* _compute_for_component is called on the next root or subcomponent:
\* pof_by_var is reset and the leaf computation runs.
Enter ==
    /\ status = "running"
    /\ stack # <<>>
    /\ Top.next =< Len(Subcomponents(Top.node))
    /\ LET component == Subcomponents(Top.node)[Top.next]
           hazard_data == hazards[component]
           curves_by_var == CurvesByVar(hazard_data)
       IN  /\ IF Evaluates(hazard_data)
              THEN /\ fragility_curves' =
                          [fragility_curves EXCEPT ![component] = curves_by_var]
                   /\ has_curves' = has_curves \cup {component}
                   /\ pof_by_var' =
                          [pof_by_var EXCEPT
                              ![component] = OwnPofByVar(curves_by_var)]
                   /\ own_pof_by_var' =
                          [own_pof_by_var EXCEPT
                              ![component] = OwnPofByVar(curves_by_var)]
                   /\ dist_calls' =
                          dist_calls \cup DistCalls(component, hazard_data)
              ELSE /\ pof_by_var' = [pof_by_var EXCEPT ![component] = EmptyMap]
                   /\ own_pof_by_var' =
                          [own_pof_by_var EXCEPT ![component] = EmptyMap]
                   /\ UNCHANGED <<fragility_curves, has_curves, dist_calls>>
           /\ hazards_dict' =
                  [hazards_dict EXCEPT ![component] = setdefault(@)]
           /\ stack' = Append(stack, Frame(component))
    /\ UNCHANGED <<hbomVars, cacheVars, earlier, hbom_tree, returned>>
    /\ UNCHANGED <<inputs, pof, has_pof, frag_ts, status>>

\* Mutant of ChildrenDone: the component combines after its first subcomponent.
ChildrenDoneEarly(frame) ==
    frame.next > Len(Subcomponents(frame.node)) \/ frame.next > 1

\* The loop over component.get("subcomponents", []) has ended.
ChildrenDone(frame) == frame.next > Len(Subcomponents(frame.node))

\* The subcomponents of the top frame's component are done: the component
\* combines its own PoF with theirs and returns; its caller appends the
\* returned component's pof_by_var to child_pofs and moves on.
Leave ==
    /\ status = "running"
    /\ stack # <<>>
    /\ Top.node # 0
    /\ ChildrenDone(Top)
    /\ LET component == Top.node
           combined_pof_by_var ==
               CombinedPofByVar(pof_by_var[component], Top.child_pofs)
           caller == stack[Len(stack) - 1]
       IN  /\ pof_by_var' =
                  [pof_by_var EXCEPT ![component] = combined_pof_by_var]
           /\ \E o \in Orders(DOMAIN combined_pof_by_var) :
                  pof' = [pof EXCEPT
                             ![component] = TopLevelPof(combined_pof_by_var, o)]
           /\ has_pof' = has_pof \cup {component}
           /\ stack' =
                  Append(SubSeq(stack, 1, Len(stack) - 2),
                         [caller EXCEPT
                             !.next = @ + 1,
                             !.child_pofs =
                                 IF caller.node = 0 THEN @
                                 ELSE Append(@, pof_by_var'[component])])
    /\ UNCHANGED <<hbomVars, cacheVars, earlier>>
    /\ UNCHANGED <<hazards_dict, hbom_tree, returned>>
    /\ UNCHANGED <<inputs, fragility_curves, has_curves, own_pof_by_var,
                   dist_calls, frag_ts, status>>

\* The loop over the roots ends: compute_for_tree returns the tree.
Finish ==
    /\ status = "running"
    /\ stack # <<>>
    /\ Top.node = 0
    /\ Top.next > Len(Subcomponents(0))
    /\ status' = "done"
    /\ stack' = <<>>
    /\ returned' = hbom_tree
    /\ UNCHANGED <<hbomVars, cacheVars, earlier, hazards_dict, hbom_tree>>
    /\ UNCHANGED <<inputs, fragility_curves, has_curves, pof_by_var,
                   own_pof_by_var, pof, has_pof, dist_calls, frag_ts>>

(***************************************************************************)
(* compute_timeseries, step 2: the extraction of the time series.          *)
(***************************************************************************)
\* Mutant of WithCurves: every node with a pof gets a key.
WithCurvesZeroFilled == has_pof

\* The nodes _extract_series finds a non-empty fragility_curves on.
WithCurves == {u \in has_curves : DOMAIN fragility_curves[u] # {}}

\* max() of an empty sequence raises ValueError.
ExtractRaises ==
    \E u \in WithCurves : Len(all_grid_data) = 0 /\ nTimes > 0

\* Mutant of SeriesAt: a cell too short for t contributes its last value.
SeriesAtPadLast(grids, t) ==
    PyMax([g \in 1..Len(grids) |->
              IF t =< Len(grids[g].fc_values) THEN grids[g].fc_values[t]
              ELSE grids[g].final_pof])

\* The PoF at time index t (t - 1 in the code) of one variable's grids.
SeriesAt(grids, t) ==
    PyMax([g \in 1..Len(grids) |->
              IF t =< Len(grids[g].fc_values) THEN grids[g].fc_values[t]
              ELSE Zero])

ExtractSeries(curves) ==
    [var \in DOMAIN curves |-> [t \in 1..nTimes |-> SeriesAt(curves[var], t)]]

Extract ==
    /\ status = "done"
    /\ IF ExtractRaises
       THEN status' = "raised" /\ UNCHANGED frag_ts
       ELSE /\ status' = "returned"
            /\ frag_ts' = [u \in WithCurves |->
                              ExtractSeries(fragility_curves[u])]
    /\ UNCHANGED <<hbomVars, cacheVars, earlier>>
    /\ UNCHANGED <<hazards_dict, hbom_tree, returned>>
    /\ UNCHANGED <<inputs, fragility_curves, has_curves, pof_by_var,
                   own_pof_by_var, pof, has_pof, stack, dist_calls>>

(***************************************************************************)
(* The inputs of a request.                                                *)
(***************************************************************************)
Binding(model, params, var) ==
    [present |-> TRUE, fragility_model |-> model, fragility_params |-> params,
     climate_variable |-> var]

\* No entry for the hazard in the node's hazards.
NoBinding ==
    [present |-> FALSE, fragility_model |-> "", fragility_params |-> NoParams,
     climate_variable |-> ""]
Inherit == Binding("inherit", NoParams, "")
Logi == Binding("logistic", [p \in {"mid_point"} |-> 2000], "")
LogiNeg ==
    Binding("logistic",
            [p \in {"mid_point", "slope"} |->
                IF p = "mid_point" THEN 2000 ELSE -5], "")
LogiTas == Binding("logistic", [p \in {"mid_point"} |-> 2000], "tas")
LognHurs == Binding("lognormal", [p \in {"median"} |-> 100], "hurs")
LognMu ==
    Binding("lognormal",
            [p \in {"mu", "sigma"} |-> IF p = "mu" THEN 30 ELSE 1], "")
Weib == Binding("weibull", [p \in {"scale"} |-> 100], "")
WeibBad == Binding("weibull", [p \in {"scale"} |-> 0], "")
Unknown == Binding("gumbel", NoParams, "")

Cell(tas, hurs) ==
    [climate |-> [v \in {"tas", "hurs"} |-> IF v = "tas" THEN tas ELSE hurs]]
CellTas(tas) == [climate |-> [v \in {"tas"} |-> tas]]

CellA == Cell(SList(<<0, 200>>), SList(<<2000, 200>>))
CellB == CellTas(SList(<<200, 2000>>))
CellC == Cell(SList(<<200, Null>>), SList(<<>>))
CellD == Cell(SNone, SList(<<Null, 0>>))
CellE == Cell(SList(<<2000>>), SList(<<0>>))
CellF == CellTas(SList(<<0, 0>>))

Cells == {CellA, CellB, CellC, CellD, CellE, CellF}

VarLists == {<<>>, <<"tas">>, <<"hurs">>, <<"tas", "hurs">>}

SeqsUpTo(S, n) == UNION {[1..m -> S] : m \in 0..n}

Dataset(variables, times, data) ==
    [variables |-> variables, nTimes |-> times, data |-> data]

Tree(n, par, hz) == [n |-> n, parent |-> par, hazards |-> hz]

\* Trees of every shape, over a few datasets.
TreeBindings == {NoBinding, Inherit, Logi, LogiTas}

SmallDatasets ==
    {Dataset(<<"tas", "hurs">>, MaxTimes, <<CellA>>),
     Dataset(<<"tas", "hurs">>, MaxTimes, <<CellF, CellC>>),
     Dataset(<<"tas">>, MaxTimes, <<CellF>>)}

AllTrees ==
    UNION {{Tree(n, par, hz) : par \in Forests(n),
                               hz \in [1..n -> TreeBindings]} :
              n \in 1..MaxNodes}

\* Datasets of every kind, over a few trees.
Chain(hz) == Tree(Len(hz), [i \in 1..Len(hz) |-> i - 1], hz)

SmallTrees ==
    {Chain(<<Logi>>), Chain(<<LognHurs>>), Chain(<<LognMu>>),
     Chain(<<Unknown>>), Chain(<<Unknown, Logi>>), Chain(<<WeibBad>>),
     Chain(<<LogiNeg>>),
     Chain(<<Inherit, Logi>>), Chain(<<LogiTas, Weib>>),
     Chain(<<Logi, WeibBad>>), Chain(<<NoBinding, Inherit, Logi>>),
     Tree(3, <<0, 1, 1>>, <<Logi, LogiTas, Unknown>>)}

AllDatasets ==
    {Dataset(variables, times, data) :
        variables \in VarLists, times \in 0..MaxTimes,
        data \in SeqsUpTo(Cells, MaxGrids)}

\* The reply before any request.
NoReply ==
    [op |-> "none", key |-> <<>>, status |-> 0, obj |-> <<>>, latest |-> <<>>]

\* No cache takes part in a fragility request or a reconstruction.
CacheOff ==
    /\ cache_data = <<>>
    /\ cache_order = <<>>
    /\ cache_disk = EmptyMap
    /\ plain_map = EmptyMap
    /\ reply = NoReply
    /\ pending = <<>>
    /\ handled = 0

\* No reconstruction takes part in a fragility request.
HbomOff ==
    /\ flat_nodes = <<>>
    /\ curve_docs = <<>>
    /\ node_map = EmptyMap
    /\ roots = <<>>
    /\ filter_hazard = ""
    /\ hbom_status = "off"

Requests == (AllTrees \X SmallDatasets) \cup (SmallTrees \X AllDatasets)

Init ==
    /\ \E r \in Requests :
           /\ nNodes = r[1].n
           /\ parent = r[1].parent
           /\ hazards = r[1].hazards
           /\ climate_vars = r[2].variables
           /\ nTimes = r[2].nTimes
           /\ all_grid_data = r[2].data
    /\ fragility_curves = [u \in Nodes |-> EmptyMap]
    /\ has_curves = {}
    /\ pof_by_var = [u \in Nodes |-> EmptyMap]
    /\ own_pof_by_var = [u \in Nodes |-> EmptyMap]
    /\ pof = [u \in Nodes |-> Zero]
    /\ has_pof = {}
    /\ stack = <<>>
    /\ dist_calls = {}
    /\ frag_ts = EmptyMap
    /\ status = "idle"
    /\ earlier = <<>>
    /\ hazards_dict = [u \in Nodes |-> HazardsMap(TRUE, EmptyMap)]
    /\ hbom_tree = 1
    /\ returned = NoRef
    /\ HbomOff
    /\ CacheOff

Next == Start \/ Enter \/ Leave \/ Finish \/ Extract

Spec == Init /\ [][Next]_vars

(***************************************************************************)
(* Calls on a tree that earlier calls annotated.                           *)
(***************************************************************************)
\* The datasets of the calls on one tree.
RerunDatasets ==
    SmallDatasets
    \cup {Dataset(<<"hurs">>, 1, <<CellE>>),
          Dataset(<<"tas">>, 1, <<>>),
          Dataset(<<>>, 0, <<>>)}

\* compute_for_tree or compute_timeseries is called again, with the same
\* hazard and any dataset, on the tree as the last call left it: the pof,
\* pof_by_var and fragility_curves of that call are still on the nodes.
Again ==
    /\ status \in {"done", "returned", "raised"}
    /\ Len(earlier) < MaxCalls - 1
    /\ \E d \in RerunDatasets :
           /\ climate_vars' = d.variables
           /\ nTimes' = d.nTimes
           /\ all_grid_data' = d.data
    /\ earlier' = Append(earlier, Dataset(climate_vars, nTimes, all_grid_data))
    /\ status' = "running"
    /\ stack' = <<Frame(0)>>
    /\ dist_calls' = {}
    /\ frag_ts' = EmptyMap
    /\ returned' = NoRef
    /\ UNCHANGED <<nNodes, parent, hazards, fragility_curves, has_curves,
                   pof_by_var, own_pof_by_var, pof, has_pof>>
    /\ UNCHANGED <<hbomVars, cacheVars, hazards_dict, hbom_tree>>

InitRerun ==
    /\ \E r \in SmallTrees \X RerunDatasets :
           /\ nNodes = r[1].n
           /\ parent = r[1].parent
           /\ hazards = r[1].hazards
           /\ climate_vars = r[2].variables
           /\ nTimes = r[2].nTimes
           /\ all_grid_data = r[2].data
    /\ fragility_curves = [u \in Nodes |-> EmptyMap]
    /\ has_curves = {}
    /\ pof_by_var = [u \in Nodes |-> EmptyMap]
    /\ own_pof_by_var = [u \in Nodes |-> EmptyMap]
    /\ pof = [u \in Nodes |-> Zero]
    /\ has_pof = {}
    /\ stack = <<>>
    /\ dist_calls = {}
    /\ frag_ts = EmptyMap
    /\ status = "idle"
    /\ earlier = <<>>
    /\ hazards_dict = [u \in Nodes |-> HazardsMap(TRUE, EmptyMap)]
    /\ hbom_tree = 1
    /\ returned = NoRef
    /\ HbomOff
    /\ CacheOff

NextRerun == Start \/ Enter \/ Leave \/ Finish \/ Extract \/ Again

SpecRerun == InitRerun /\ [][NextRerun]_vars

(***************************************************************************)
(* Calls on trees whose nodes carry more than the requested hazard: a node *)
(* has no "hazards" key at all, an empty rest, or a binding of another     *)
(* hazard beside the requested one.                                        *)
(***************************************************************************)
\* EXAMPLE of the bindings a node carries for the hazards not requested.
OtherBindings == [h \in {"Drought"} |-> Weib]

\* The rest of a node's "hazards" map: no map, an empty rest, one binding.
NoHazardsMap == HazardsMap(FALSE, EmptyMap)

RestMaps ==
    {NoHazardsMap, HazardsMap(TRUE, EmptyMap), HazardsMap(TRUE, OtherBindings)}

FrameBindings == {NoBinding, Inherit, LogiTas}

FrameTrees ==
    UNION {{Tree(n, par, hz) : par \in Forests(n),
                               hz \in [1..n -> FrameBindings]} :
              n \in 1..MaxNodes}

FrameDatasets ==
    {Dataset(<<"tas", "hurs">>, MaxTimes, <<CellA>>),
     Dataset(<<"tas">>, MaxTimes, <<CellF>>)}

\* The tree objects a caller can pass.
TreeRefs == 1..2

InitFrame ==
    /\ \E r \in FrameTrees \X FrameDatasets :
           /\ nNodes = r[1].n
           /\ parent = r[1].parent
           /\ hazards = r[1].hazards
           /\ climate_vars = r[2].variables
           /\ nTimes = r[2].nTimes
           /\ all_grid_data = r[2].data
    /\ hazards_dict \in [Nodes -> RestMaps]
    /\ \A u \in Nodes : ~hazards_dict[u].present => ~hazards[u].present
    /\ hbom_tree \in TreeRefs
    /\ returned = NoRef
    /\ fragility_curves = [u \in Nodes |-> EmptyMap]
    /\ has_curves = {}
    /\ pof_by_var = [u \in Nodes |-> EmptyMap]
    /\ own_pof_by_var = [u \in Nodes |-> EmptyMap]
    /\ pof = [u \in Nodes |-> Zero]
    /\ has_pof = {}
    /\ stack = <<>>
    /\ dist_calls = {}
    /\ frag_ts = EmptyMap
    /\ status = "idle"
    /\ earlier = <<>>
    /\ HbomOff
    /\ CacheOff

SpecFrame == InitFrame /\ [][Next]_vars

(***************************************************************************)
(* The HBOM tree reconstructor (hbom/hbom_preparers.py).  A uuid is a      *)
(* positive integer; a flat record is [uuid, parent_uuid, children_uuids]  *)
(* and a fragility document [component_uuid, hazard, model, parameters,    *)
(* climate_variable, conditions, priority, source].  The other fields of a *)
(* record (label, component_type, level, node_path, metadata) are copied   *)
(* by _prepare_node and read by nothing here.                              *)
(***************************************************************************)
MaxRecs == 3
MaxDocs == 3

\* None as a uuid: a parent_uuid or component_uuid that is null or absent.
NoUuid == 0

\* EXAMPLE of a uuid that no flat record has.
Ghost == MaxRecs + 2

\* dict(d) restricted to the keys in S.
Restrict(d, S) == [k \in DOMAIN d \cap S |-> d[k]]

\* d with d[key] = value added.
Put(d, key, value) ==
    [k \in DOMAIN d \cup {key} |-> IF k = key THEN value ELSE d[k]]

\* _prepare_node: the node object of a flat record, with the bookkeeping
\* keys parent_uuid and children_uuids and an empty hazards map.  keys holds
\* the bookkeeping keys the object has.
_prepare_node(node) ==
    [uuid |-> node.uuid,
     parent_uuid |-> node.parent_uuid,
     children_uuids |-> node.children_uuids,
     hazards |-> EmptyMap,
     subcomponents |-> <<>>,
     keys |-> {"parent_uuid", "children_uuids"}]

\* {node["uuid"]: _prepare_node(node) for node in flat_nodes}: the last
\* record of a uuid stays.
NodeMapOf(flat) ==
    [u \in {flat[i].uuid : i \in 1..Len(flat)} |->
        LET last == CHOOSE i \in 1..Len(flat) :
                        /\ flat[i].uuid = u
                        /\ \A j \in 1..Len(flat) : flat[j].uuid = u => j =< i
        IN  _prepare_node(flat[last])]

\* The order node_map.items() and node_map.values() iterate in: the uuids
\* in the order of their first record.
RECURSIVE KeyOrderFrom(_, _)
KeyOrderFrom(flat, i) ==
    IF i > Len(flat) THEN <<>>
    ELSE IF \E j \in 1..(i - 1) : flat[j].uuid = flat[i].uuid
         THEN KeyOrderFrom(flat, i + 1)
         ELSE <<flat[i].uuid>> \o KeyOrderFrom(flat, i + 1)

KeyOrder(flat) == KeyOrderFrom(flat, 1)

\* curve.get("hazard", "Unknown"); "" stands for a document without hazard.
HazardOf(curve) == IF curve.hazard = "" THEN "Unknown" ELSE curve.hazard

\* The binding _merge_fragilities builds from a document; priority
\* defaults to 0, and a document's source is its provenance's.
BindingOf(curve) ==
    [fragility_model |-> curve.model,
     fragility_params |-> curve.parameters,
     climate_variable |-> curve.climate_variable,
     conditions |-> curve.conditions,
     priority |-> IF curve.priority = Null THEN 0 ELSE curve.priority,
     source |-> curve.source]

\* Mutant of AddCurves: a later document of a hazard replaces the binding.
RECURSIVE AddCurvesLastWins(_, _, _)
AddCurvesLastWins(node_hazards, curves, i) ==
    IF i > Len(curves) THEN node_hazards
    ELSE AddCurvesLastWins(
             Put(node_hazards, HazardOf(curves[i]), BindingOf(curves[i])),
             curves, i + 1)

\* The loop over a component's documents: a hazard gets its binding from
\* the first document that names it.
RECURSIVE AddCurves(_, _, _)
AddCurves(node_hazards, curves, i) ==
    IF i > Len(curves) THEN node_hazards
    ELSE IF HazardOf(curves[i]) \in DOMAIN node_hazards
         THEN AddCurves(node_hazards, curves, i + 1)
         ELSE AddCurves(
                  Put(node_hazards, HazardOf(curves[i]), BindingOf(curves[i])),
                  curves, i + 1)

\* curves_by_component[u]: the documents of component u, in list order;
\* documents without component_uuid or of an unknown component are skipped.
CurvesByComponent(nm, docs, u) ==
    SelectSeq(docs, LAMBDA curve : /\ curve.component_uuid # NoUuid
                                   /\ curve.component_uuid \in DOMAIN nm
                                   /\ curve.component_uuid = u)

_merge_fragilities(nm, docs) ==
    [u \in DOMAIN nm |->
        [nm[u] EXCEPT
            !.hazards = AddCurves(@, CurvesByComponent(nm, docs, u), 1)]]

\* Mutant of SubcomponentsOf: only the first known child is linked.
SubcomponentsOfFirstOnly(nm, children_uuids) ==
    LET known == SelectSeq(children_uuids, LAMBDA c : c \in DOMAIN nm)
    IN  IF known = <<>> THEN <<>> ELSE <<known[1]>>

\* [node_map[child_uuid] for child_uuid in children_uuids
\*  if child_uuid in node_map], as uuids.
SubcomponentsOf(nm, children_uuids) ==
    SelectSeq(children_uuids, LAMBDA c : c \in DOMAIN nm)

\* The linking loop: children_uuids is popped, subcomponents is set.
LinkChildren(nm) ==
    [u \in DOMAIN nm |->
        [nm[u] EXCEPT
            !.subcomponents = SubcomponentsOf(nm, nm[u].children_uuids),
            !.keys = @ \ {"children_uuids"}]]

\* Mutant of RootsOf: the first record is the root.
RootsOfFirst(nm, order) == IF order = <<>> THEN <<>> ELSE <<order[1]>>

\* Mutant of RootsOf: the roots are the nodes no node lists as a child.
RootsOfUnlisted(nm, order) ==
    SelectSeq(order,
              LAMBDA u : \A p \in DOMAIN nm :
                             \A i \in 1..Len(nm[p].subcomponents) :
                                 nm[p].subcomponents[i] # u)

\* [node for node in node_map.values() if node.get("parent_uuid") is None]
RootsOf(nm, order) ==
    SelectSeq(order, LAMBDA u : nm[u].parent_uuid = NoUuid)

\* node.pop("parent_uuid", None) on every node.
PopParent(nm) ==
    [u \in DOMAIN nm |-> [nm[u] EXCEPT !.keys = @ \ {"parent_uuid"}]]

\* reconstruct_tree(flat_nodes, fragility_curves)
Reconstruct ==
    /\ hbom_status = "idle"
    /\ IF flat_nodes = <<>>
       THEN /\ node_map' = EmptyMap
            /\ roots' = <<>>
       ELSE LET prepared == NodeMapOf(flat_nodes)
                merged == IF curve_docs # <<>>
                          THEN _merge_fragilities(prepared, curve_docs)
                          ELSE prepared
                linked == LinkChildren(merged)
            IN  /\ roots' = RootsOf(linked, KeyOrder(flat_nodes))
                /\ node_map' = PopParent(linked)
    /\ hbom_status' = "returned"
    /\ UNCHANGED <<flat_nodes, curve_docs, filter_hazard>>
    /\ UNCHANGED <<fragilityVars, cacheVars>>

\* The hazards a tree can be filtered with.
HazardNames == {"Wind", "Heat"}

\* Mutant of FilterNode: a node without the hazard loses its subtree.
FilterNodePruned(node, hazard) ==
    [node EXCEPT
        !.hazards = Restrict(@, {hazard}),
        !.subcomponents = IF hazard \in DOMAIN node.hazards THEN @ ELSE <<>>]

\* _filter_hazard on the node itself:
\* node["hazards"] = {h: d for h, d in hazards.items() if h == hazard}
FilterNode(node, hazard) == [node EXCEPT !.hazards = Restrict(@, {hazard})]

\* The recursion of _filter_hazard over a list of nodes: seen are the nodes
\* it filtered; it never returns from a node that is its own descendant
\* (RecursionError), path being the nodes the recursion is in.
RECURSIVE FilterWalk(_, _, _, _)
FilterWalk(nm, kids, path, acc) ==
    IF acc.raised \/ kids = <<>> THEN acc
    ELSE IF Head(kids) \in path THEN [acc EXCEPT !.raised = TRUE]
         ELSE FilterWalk(
                  nm, Tail(kids), path,
                  FilterWalk(nm, nm[Head(kids)].subcomponents,
                             path \cup {Head(kids)},
                             [acc EXCEPT !.seen = @ \cup {Head(kids)}]))

\* prepare_for_frontend, lines 171-172, with a hazard:
\* roots = [_filter_hazard(root, hazard) for root in roots]
FilterHazard ==
    /\ hbom_status = "returned"
    /\ \E hazard \in HazardNames :
           LET walk == FilterWalk(node_map, roots, {},
                                  [seen |-> {}, raised |-> FALSE])
           IN  /\ node_map' =
                      [u \in DOMAIN node_map |->
                          IF u \in walk.seen
                          THEN FilterNode(node_map[u], hazard)
                          ELSE node_map[u]]
               /\ hbom_status' = IF walk.raised THEN "raised" ELSE "filtered"
               /\ filter_hazard' = hazard
    /\ UNCHANGED <<flat_nodes, curve_docs, roots>>
    /\ UNCHANGED <<fragilityVars, cacheVars>>

(***************************************************************************)
(* The inputs of a reconstruction.                                         *)
(***************************************************************************)
Rec(uuid, parent_uuid, children_uuids) ==
    [uuid |-> uuid, parent_uuid |-> parent_uuid,
     children_uuids |-> children_uuids]

\* A document that leaves priority out.
DocLogistic(component_uuid, hazard) ==
    [component_uuid |-> component_uuid, hazard |-> hazard,
     model |-> "logistic", parameters |-> [p \in {"mid_point"} |-> 2000],
     climate_variable |-> "tas", conditions |-> "none", priority |-> Null,
     source |-> "NREL"]

DocWeibull(component_uuid, hazard) ==
    [component_uuid |-> component_uuid, hazard |-> hazard,
     model |-> "weibull", parameters |-> [p \in {"scale"} |-> 100],
     climate_variable |-> "", conditions |-> "coastal", priority |-> 5,
     source |-> "FEMA"]

DocSet ==
    {DocLogistic(1, "Wind"), DocWeibull(1, "Wind"),
     DocLogistic(1, "Heat"), DocWeibull(1, "Heat"),
     DocLogistic(2, "Wind"), DocWeibull(2, "Wind"),
     DocLogistic(Ghost, "Wind"), DocWeibull(NoUuid, "Wind"),
     DocLogistic(1, "")}

\* The flat lists the documents are merged into.
DocTrees ==
    {<<Rec(1, NoUuid, <<2>>), Rec(2, 1, <<>>)>>,
     <<Rec(2, 1, <<>>), Rec(1, NoUuid, <<Ghost, 2>>)>>}

\* Flat lists of records with unique uuids whose parent_uuid and
\* children_uuids are any of a few values: known uuids, unknown ones, one
\* uuid twice, the record's own.
ParentChoices == {NoUuid, 1, Ghost}

ChildLists == {<<>>, <<1>>, <<2>>, <<3, 2>>, <<2, 2>>, <<Ghost, 3>>}

ArbitraryFlat(n, pc) == [i \in 1..n |-> Rec(i, pc[i][1], pc[i][2])]

\* The flat records of a forest: node u's record names its parent (None for
\* a root) and its children in order.
Flatten(n, par) ==
    [u \in 1..n |->
        Rec(u, IF par[u] = 0 THEN NoUuid ELSE par[u],
            SelectSeq([i \in 1..n |-> i], LAMBDA i : par[i] = u))]

Permute(s, order) == [i \in 1..Len(s) |-> s[order[i]]]

\* No fragility request takes part in a reconstruction.
FragilityOff ==
    /\ nNodes = 0
    /\ parent = <<>>
    /\ hazards = <<>>
    /\ climate_vars = <<>>
    /\ nTimes = 0
    /\ all_grid_data = <<>>
    /\ fragility_curves = EmptyMap
    /\ has_curves = {}
    /\ pof_by_var = EmptyMap
    /\ own_pof_by_var = EmptyMap
    /\ pof = EmptyMap
    /\ has_pof = {}
    /\ stack = <<>>
    /\ dist_calls = {}
    /\ frag_ts = EmptyMap
    /\ status = "off"
    /\ hazards_dict = <<>>
    /\ hbom_tree = NoRef
    /\ returned = NoRef
    /\ earlier = <<>>

\* The arguments are a flat list of arbitrary records without documents,
\* or one of DocTrees with any documents, or the flat records of a forest
\* in any order (Permute) without documents.
InitHbom ==
    /\ \/ /\ \E n \in 0..MaxRecs :
                  \E pc \in [1..n -> ParentChoices \X ChildLists] :
                      flat_nodes = ArbitraryFlat(n, pc)
          /\ curve_docs = <<>>
       \/ /\ flat_nodes \in DocTrees
          /\ curve_docs \in SeqsUpTo(DocSet, MaxDocs)
       \/ /\ \E n \in 1..MaxRecs :
                  \E par \in Forests(n), order \in Orders(1..n) :
                      flat_nodes = Permute(Flatten(n, par), order)
          /\ curve_docs = <<>>
    /\ node_map = EmptyMap
    /\ roots = <<>>
    /\ filter_hazard = ""
    /\ hbom_status = "idle"
    /\ FragilityOff
    /\ CacheOff

NextHbom == Reconstruct \/ FilterHazard

SpecHbom == InitHbom /\ [][NextHbom]_vars

(***************************************************************************)
(* The two-tier cache (cache_manager.py).  A string is the sequence of     *)
(* its pieces, a piece being a quote, a double quote, a backslash or a     *)
(* run of other characters; a component of a key tuple is a string, an     *)
(* integer, a float, a bool or a tuple of components.  A cached object is  *)
(* a record [shape, hazard, request, valid]: shape "climate" for a dict    *)
(* with the keys "variables" and "data", "other" for any other object;     *)
(* valid tells whether ClimateData accepts it.                             *)
(***************************************************************************)
\* The capacity of the in-memory LRU; the program's cache has 256.
mem_size == 2

Str(pieces) == [t |-> "str", s |-> pieces, n |-> 0, items |-> <<>>]
IntKey(n) == [t |-> "int", s |-> <<>>, n |-> n, items |-> <<>>]
Tuple(items) == [t |-> "tuple", s |-> <<>>, n |-> 0, items |-> items]
\* A float with a whole value, and True or False.
FloatKey(n) == [t |-> "float", s |-> <<>>, n |-> n, items |-> <<>>]
BoolKey(b) ==
    [t |-> "bool", s |-> <<>>, n |-> IF b THEN 1 ELSE 0, items |-> <<>>]

Has(s, x) == \E i \in 1..Len(s) : s[i] = x

\* The pieces of a string with every backslash, and every quote when the
\* string is delimited by quotes, preceded by a backslash.
RECURSIVE Escaped(_, _)
Escaped(s, quoted) ==
    IF s = <<>> THEN <<>>
    ELSE (IF s[1] = "\\" \/ (quoted /\ s[1] = "'")
          THEN <<"\\", s[1]>> ELSE <<s[1]>>)
         \o Escaped(Tail(s), quoted)

\* repr() of a str: between double quotes when it holds a quote and no
\* double quote, between quotes otherwise.
ReprStr(s) ==
    IF Has(s, "'") /\ ~Has(s, "\"")
    THEN <<"\"">> \o Escaped(s, FALSE) \o <<"\"">>
    ELSE <<"'">> \o Escaped(s, TRUE) \o <<"'">>

\* repr() of a tuple of components, and of one component.
RECURSIVE ReprTuple(_), ReprItems(_), Repr(_)
ReprItems(items) ==
    IF items = <<>> THEN <<>>
    ELSE IF Len(items) = 1 THEN Repr(items[1])
    ELSE Repr(items[1]) \o <<",", " ">> \o ReprItems(Tail(items))

ReprTuple(items) ==
    <<"(">> \o ReprItems(items)
            \o (IF Len(items) = 1 THEN <<",">> ELSE <<>>) \o <<")">>

Repr(x) ==
    CASE x.t = "str" -> ReprStr(x.s)
      [] x.t = "int" -> <<ToString(x.n)>>
      [] x.t = "float" -> <<ToString(x.n), ".", "0">>
      [] x.t = "bool" -> <<IF x.n = 1 THEN "True" ELSE "False">>
      [] x.t = "tuple" -> ReprTuple(x.items)

\* _hash_key: the SHA-256 digest of repr((kind, *key_tuple)); the digest is
\* taken to be free of collisions and stands as the text it is made of.
_hash_key(kind, key_tuple) == ReprTuple(<<Str(<<kind>>)>> \o key_tuple)

\* Python's None as a cached or returned object.
None == [shape |-> "None", hazard |-> "", request |-> "", valid |-> FALSE]

\* pickle.dump and pickle.load of an object.
_dump(obj) == <<"pickle", obj>>
_load(bytes) == bytes[2]

\* h in self.mem, and self.mem's value for h without the LRU bookkeeping.
InMem(data, h) == \E i \in 1..Len(data) : data[i].h = h
MemValue(data, h) == data[CHOOSE i \in 1..Len(data) : data[i].h = h].obj

\* LRUCache's bookkeeping: h becomes the most recently used key.
Touch(order, h) == SelectSeq(order, LAMBDA k : k # h) \o <<h>>

\* LRUCache.__setitem__ on mem = [data, order]: a new key evicts the least
\* recently used entry of a full cache and is added last; the value of a
\* key already held is replaced in place.
LRUSet(mem, h, obj) ==
    IF InMem(mem.data, h)
    THEN [data |-> [i \in 1..Len(mem.data) |->
                       IF mem.data[i].h = h THEN [h |-> h, obj |-> obj]
                       ELSE mem.data[i]],
          order |-> Touch(mem.order, h)]
    ELSE LET full == Len(mem.data) + 1 > mem_size
             kept == IF full
                     THEN SelectSeq(mem.data, LAMBDA e : e.h # mem.order[1])
                     ELSE mem.data
             order == IF full THEN Tail(mem.order) ELSE mem.order
         IN  [data |-> Append(kept, [h |-> h, obj |-> obj]),
              order |-> Append(order, h)]

\* The cache as one value.
Cache(data, order, disk) == [data |-> data, order |-> order, disk |-> disk]

TheCache == Cache(cache_data, cache_order, cache_disk)

\* Mutant of cache_get: only the in-memory tier is looked at.
cache_get_MemOnly(c, kind, key_tuple) ==
    LET h == _hash_key(kind, key_tuple)
    IN  IF InMem(c.data, h)
        THEN [cache |-> [c EXCEPT !.order = Touch(@, h)],
              obj |-> MemValue(c.data, h)]
        ELSE [cache |-> c, obj |-> None]

\* CacheManager.get: the cache after the call and the object returned.
cache_get(c, kind, key_tuple) ==
    LET h == _hash_key(kind, key_tuple)
    IN  IF InMem(c.data, h)
        THEN [cache |-> [c EXCEPT !.order = Touch(@, h)],
              obj |-> MemValue(c.data, h)]
        ELSE IF h \in DOMAIN c.disk
        THEN LET obj == _load(c.disk[h])
                 mem == LRUSet(c, h, obj)
             IN  [cache |-> Cache(mem.data, mem.order, c.disk), obj |-> obj]
        ELSE [cache |-> c, obj |-> None]

\* CacheManager.set: the cache after the call.
cache_set(c, kind, key_tuple, obj) ==
    LET h == _hash_key(kind, key_tuple)
        mem == LRUSet(c, h, obj)
    IN  Cache(mem.data, mem.order,
              [k \in DOMAIN c.disk \cup {h} |->
                  IF k = h THEN _dump(obj) ELSE c.disk[k]])

\* CacheManager.clear: the cache after the call.
cache_clear(c) == Cache(<<>>, <<>>, EmptyMap)

\* The cache variables take the value c.
CacheBecomes(c) ==
    /\ cache_data' = c.data
    /\ cache_order' = c.order
    /\ cache_disk' = c.disk

\* The plain map with the object of a set recorded.
Recorded(map, kind, key_tuple, obj) ==
    [k \in DOMAIN map \cup {<<kind, key_tuple>>} |->
        IF k = <<kind, key_tuple>> THEN obj ELSE map[k]]

\* The plain map's answer to a get.
Lookup(map, kind, key_tuple) ==
    IF <<kind, key_tuple>> \in DOMAIN map THEN map[<<kind, key_tuple>>]
    ELSE None

Reply(op, key, code, obj) ==
    [op |-> op, key |-> key, status |-> code, obj |-> obj, latest |-> None]

\* The (kind, key_tuple) pairs and the objects of the cache operations.
CachePairs ==
    {<<"climate", <<Str(<<"a">>), Str(<<"b">>)>>>>,
     <<"climate", <<Str(<<"a", "'", ",", " ", "'", "b">>)>>>>,
     <<"climate", <<Str(<<"1">>)>>>>,
     <<"climate", <<IntKey(1)>>>>,
     <<"climate_latest", <<Str(<<"a">>), Str(<<"b">>)>>>>}

CacheObjects ==
    {[shape |-> "climate", hazard |-> "Wind", request |-> "rcp45",
      valid |-> TRUE],
     [shape |-> "other", hazard |-> "", request |-> "", valid |-> TRUE]}

\* cache.set(kind, key_tuple, obj)
CacheSet ==
    /\ \E p \in CachePairs, obj \in CacheObjects :
           /\ CacheBecomes(cache_set(TheCache, p[1], p[2], obj))
           /\ plain_map' = Recorded(plain_map, p[1], p[2], obj)
           /\ reply' = Reply("set", p, 0, obj)
    /\ UNCHANGED <<pending, handled>>
    /\ UNCHANGED <<fragilityVars, hbomVars>>

\* cache.get(kind, key_tuple)
CacheGet ==
    /\ \E p \in CachePairs :
           LET r == cache_get(TheCache, p[1], p[2])
           IN  /\ CacheBecomes(r.cache)
               /\ reply' = Reply("get", p, 0, r.obj)
    /\ UNCHANGED plain_map
    /\ UNCHANGED <<pending, handled>>
    /\ UNCHANGED <<fragilityVars, hbomVars>>

\* cache.clear()
CacheClear ==
    /\ CacheBecomes(cache_clear(TheCache))
    /\ plain_map' = EmptyMap
    /\ reply' = NoReply
    /\ UNCHANGED <<pending, handled>>
    /\ UNCHANGED <<fragilityVars, hbomVars>>

\* The server starts again: a new CacheManager over the same directory,
\* the requests that were waiting are lost.
Restart ==
    /\ cache_data # <<>> \/ pending # <<>>
    /\ cache_data' = <<>>
    /\ cache_order' = <<>>
    /\ pending' = <<>>
    /\ reply' = NoReply
    /\ UNCHANGED <<cache_disk, plain_map, handled>>
    /\ UNCHANGED <<fragilityVars, hbomVars>>

InitCache == FragilityOff /\ HbomOff /\ CacheOff

NextCache == CacheSet \/ CacheGet \/ CacheClear \/ Restart

SpecCache == InitCache /\ [][NextCache]_vars

(***************************************************************************)
(* The requests that read and write the cache (climate/climate_router.py,  *)
(* fragility/fragility_router.py, censusData.py, infrastructure/           *)
(* data_sources/custom_upload.py, fragility/data_sources/cache_source.py). *)
(* A request for climate data varies in its hazard and its scenario; the   *)
(* other fields of the request are the same in every request and left out  *)
(* of the key.  The census requests are for one bounding box and one list  *)
(* of years, the uploads carry one upload id.  A fragility request reads   *)
(* the cache, waits for the HBOM tree and answers in a later step; the     *)
(* requests waiting are in pending, and handled counts the requests begun. *)
(***************************************************************************)
MaxRequests == 3

MaxPending == 2

\* HazardEnum, the hazards a request for climate data can carry.
RouterHazards == {"Heat Stress", "Drought", "Wind"}

\* The hazard of a fragility route is any string of the path.
PathHazards == RouterHazards \cup {"Flood"}

Scenarios == {"rcp85", "rcp45"}

\* HazardDefinition.all_variables of the hazards of the registry.
all_variables(hazard) ==
    CASE hazard = "Heat Stress" -> <<"tas", "hurs", "hi">>
      [] hazard = "Drought" -> <<"pr", "rsds", "sfcWind">>
      [] hazard = "Wind" -> <<"sfcWind">>

\* cache_key of get_climate.
cache_key(hazard, scenario) ==
    <<Tuple(<<Str(<<"point">>)>>),
      Tuple([i \in 1..Len(all_variables(hazard)) |->
                Str(<<all_variables(hazard)[i]>>)]),
      Str(<<scenario>>)>>

\* What fetcher.fetch_for_request does: it returns a dataset ClimateData
\* accepts ("ok") or one it rejects ("invalid"), or raises a ValueError or
\* another exception.
FetchOutcomes == {"ok", "invalid", "ValueError", "error"}

\* fetcher.fetch_for_request: the dataset of a request.
fetch_for_request(hazard, scenario, outcome) ==
    [shape |-> "climate", hazard |-> hazard, request |-> scenario,
     valid |-> outcome = "ok"]

\* The truth value of what the cache returned.
Truthy(obj) == obj # None

\* isinstance(obj, dict) and "variables" in obj and "data" in obj
IsClimate(obj) == obj.shape = "climate"

\* A request may begin.
MayBegin == handled < MaxRequests

\* A reply of a fragility route, with the dataset the key
\* ("climate_latest", hazard) held when the request read the cache.
Answered(op, key, code, obj, latest) ==
    [op |-> op, key |-> key, status |-> code, obj |-> obj, latest |-> latest]

\* The cache and the plain map as one value, and set and get on it.
Store(c, map) == [cache |-> c, map |-> map]

TheStore == Store(TheCache, plain_map)

StoreSet(s, kind, key_tuple, obj) ==
    Store(cache_set(s.cache, kind, key_tuple, obj),
          Recorded(s.map, kind, key_tuple, obj))

StoreGet(s, kind, key_tuple) ==
    LET r == cache_get(s.cache, kind, key_tuple)
    IN  [store |-> Store(r.cache, s.map), obj |-> r.obj]

StoreBecomes(s) == CacheBecomes(s.cache) /\ plain_map' = s.map

\* POST /api/get-climate
GetClimate ==
    /\ MayBegin
    /\ handled' = handled + 1
    /\ \E hazard \in RouterHazards, scenario \in Scenarios :
           LET key == cache_key(hazard, scenario)
               cached == StoreGet(TheStore, "climate", key)
               id == <<hazard, scenario>>
           IN  IF Truthy(cached.obj)
               THEN /\ StoreBecomes(cached.store)
                    /\ reply' = IF cached.obj.valid
                                THEN Reply("get-climate", id, 200, cached.obj)
                                ELSE Reply("get-climate", id, 422, None)
               ELSE \E outcome \in FetchOutcomes :
                        LET response ==
                                fetch_for_request(hazard, scenario, outcome)
                        IN  CASE outcome = "ValueError" ->
                                   /\ StoreBecomes(cached.store)
                                   /\ reply' = Reply("get-climate", id, 422,
                                                     None)
                              [] outcome = "error" ->
                                   /\ StoreBecomes(cached.store)
                                   /\ reply' = Reply("get-climate", id, 500,
                                                     None)
                              [] OTHER ->
                                   /\ StoreBecomes(
                                          StoreSet(
                                              StoreSet(cached.store, "climate",
                                                       key, response),
                                              "climate_latest",
                                              <<Str(<<hazard>>)>>, response))
                                   /\ reply' =
                                          IF response.valid
                                          THEN Reply("get-climate", id, 200,
                                                     response)
                                          ELSE Reply("get-climate", id, 422,
                                                     None)
    /\ UNCHANGED pending
    /\ UNCHANGED <<fragilityVars, hbomVars>>

\* A fragility request that found its dataset waits for the HBOM tree.
Waiting(op, hazard, prepared_data, latest) ==
    [op |-> op, hazard |-> hazard, prepared_data |-> prepared_data,
     latest |-> latest]

\* GET /api/fragility/timeseries/{sector}/{hazard}, up to the await.
FragilityTimeseries ==
    /\ MayBegin
    /\ handled' = handled + 1
    /\ \E hazard \in PathHazards :
           LET prepared_data ==
                   StoreGet(TheStore, "climate_latest", <<Str(<<hazard>>)>>)
           IN  /\ StoreBecomes(prepared_data.store)
               /\ IF Truthy(prepared_data.obj)
                  THEN /\ Len(pending) < MaxPending
                       /\ pending' =
                              Append(pending,
                                     Waiting("timeseries", hazard,
                                             prepared_data.obj,
                                             prepared_data.obj))
                       /\ UNCHANGED reply
                  ELSE /\ reply' = Answered("timeseries", <<hazard>>, 400,
                                            None, None)
                       /\ UNCHANGED pending
    /\ UNCHANGED <<fragilityVars, hbomVars>>

\* The position in cache.mem's keys of the first object of a climate
\* dataset's shape, 0 when there is none.
FirstClimate(data) ==
    IF \E i \in 1..Len(data) : IsClimate(data[i].obj)
    THEN CHOOSE i \in 1..Len(data) :
             /\ IsClimate(data[i].obj)
             /\ \A j \in 1..(i - 1) : ~IsClimate(data[j].obj)
    ELSE 0

\* The LRU order after cache.mem[hash_key] was read for the first n keys.
RECURSIVE Scanned(_, _, _)
Scanned(order, data, n) ==
    IF n = 0 THEN order
    ELSE Touch(Scanned(order, data, n - 1), data[n].h)

\* The dataset a time-series request for a hazard would be given now.
LatestFor(hazard) ==
    cache_get(TheCache, "climate_latest", <<Str(<<hazard>>)>>).obj

\* GET /api/fragility/compute/{sector}/{hazard}, up to the await.
ComputeFragility ==
    /\ MayBegin
    /\ handled' = handled + 1
    /\ \E hazard \in PathHazards :
           LET first == FirstClimate(cache_data)
               on_disk == {h \in DOMAIN cache_disk :
                              IsClimate(_load(cache_disk[h]))}
           IN  /\ cache_order' =
                      Scanned(cache_order, cache_data,
                              IF first = 0 THEN Len(cache_data) ELSE first)
               /\ \/ /\ first # 0
                     /\ Len(pending) < MaxPending
                     /\ pending' =
                            Append(pending,
                                   Waiting("compute", hazard,
                                           cache_data[first].obj,
                                           LatestFor(hazard)))
                     /\ UNCHANGED reply
                  \/ /\ first = 0
                     /\ Len(pending) < MaxPending
                     /\ \E h \in on_disk :
                            pending' =
                                Append(pending,
                                       Waiting("compute", hazard,
                                               _load(cache_disk[h]),
                                               LatestFor(hazard)))
                     /\ UNCHANGED reply
                  \/ /\ first = 0
                     /\ on_disk = {}
                     /\ reply' = Answered("compute", <<hazard>>, 400, None,
                                          LatestFor(hazard))
                     /\ UNCHANGED pending
    /\ UNCHANGED <<cache_data, cache_disk, plain_map>>
    /\ UNCHANGED <<fragilityVars, hbomVars>>

\* A waiting fragility request goes on after the await: 404 when the tree
\* has no components, 500 when the fetch or the computation raises, 200
\* with the result computed on the dataset it read.
Answer ==
    /\ \E i \in 1..Len(pending), code \in {200, 404, 500} :
           /\ reply' = Answered(pending[i].op, <<pending[i].hazard>>, code,
                                IF code = 200 THEN pending[i].prepared_data
                                ELSE None,
                                pending[i].latest)
           /\ pending' = [j \in 1..(Len(pending) - 1) |->
                             IF j < i THEN pending[j] ELSE pending[j + 1]]
    /\ UNCHANGED <<cache_data, cache_order, cache_disk, plain_map, handled>>
    /\ UNCHANGED <<fragilityVars, hbomVars>>

\* The keys and results of the census requests.
bbox_key == <<FloatKey(40), FloatKey(41), FloatKey(104), FloatKey(105)>>

demo_cache_key == <<Tuple(bbox_key), Tuple(<<IntKey(2020)>>), Str(<<"ffill">>)>>

proj_cache_key ==
    demo_cache_key \o <<BoolKey(TRUE), Str(<<"cagr">>), IntKey(5)>>

Result(kind) == [shape |-> "other", hazard |-> "", request |-> kind,
                 valid |-> TRUE]

\* What the services behind a census request do: no API key is configured,
\* the TIGERweb query fails, the ACS query raises, or all answer.
CensusOutcomes == {"no_key", "tiger_fail", "acs_fail", "ok"}

\* _get_bbox_tracts: the store after the call and the status, 200 when it
\* returned.
_get_bbox_tracts(s, outcome) ==
    IF outcome = "no_key" THEN [store |-> s, status |-> 500]
    ELSE LET cached == StoreGet(s, "census_tracts", bbox_key)
         IN  IF cached.obj # None
             THEN [store |-> cached.store, status |-> 200]
             ELSE IF outcome = "tiger_fail"
             THEN [store |-> cached.store, status |-> 502]
             ELSE [store |-> StoreSet(cached.store, "census_tracts",
                                      bbox_key, Result("census_tracts")),
                   status |-> 200]

\* get_demographics_timeseries_for_bbox: the store after the call, the
\* status and the result.
get_demographics_timeseries_for_bbox(s, outcome) ==
    LET cached == StoreGet(s, "census_demographics", demo_cache_key)
        tracts == _get_bbox_tracts(cached.store, outcome)
    IN  IF cached.obj # None
        THEN [store |-> cached.store, status |-> 200, obj |-> cached.obj]
        ELSE IF tracts.status # 200
        THEN [store |-> tracts.store, status |-> tracts.status, obj |-> None]
        ELSE IF outcome = "acs_fail"
        THEN [store |-> tracts.store, status |-> 500, obj |-> None]
        ELSE [store |-> StoreSet(tracts.store, "census_demographics",
                                 demo_cache_key,
                                 Result("census_demographics")),
              status |-> 200, obj |-> Result("census_demographics")]

\* A call of get_demographics_timeseries_for_bbox.
Demographics ==
    /\ MayBegin
    /\ handled' = handled + 1
    /\ \E outcome \in CensusOutcomes :
           \E r \in {get_demographics_timeseries_for_bbox(TheStore, outcome)} :
               /\ StoreBecomes(r.store)
               /\ reply' = Reply("demographics", <<>>, r.status, r.obj)
    /\ UNCHANGED pending
    /\ UNCHANGED <<fragilityVars, hbomVars>>

\* A call of get_demographics_timeseries_with_projection_for_bbox
\* (POST /get-census-population): the cached projection, or the historical
\* series of get_demographics_timeseries_for_bbox projected and stored.
Projection ==
    /\ MayBegin
    /\ handled' = handled + 1
    /\ \E outcome \in CensusOutcomes :
           \E cached \in {StoreGet(TheStore, "census_projected",
                                   proj_cache_key)} :
               IF cached.obj # None
               THEN /\ StoreBecomes(cached.store)
                    /\ reply' = Reply("projection", <<>>, 200, cached.obj)
               ELSE \E hist \in {get_demographics_timeseries_for_bbox(
                                      cached.store, outcome)} :
                        IF hist.status # 200
                        THEN /\ StoreBecomes(hist.store)
                             /\ reply' = Reply("projection", <<>>,
                                               hist.status, None)
                        ELSE /\ StoreBecomes(
                                    StoreSet(hist.store, "census_projected",
                                             proj_cache_key,
                                             Result("census_projected")))
                             /\ reply' = Reply("projection", <<>>, 200,
                                               Result("census_projected"))
    /\ UNCHANGED pending
    /\ UNCHANGED <<fragilityVars, hbomVars>>

\* cache_key of CustomUploadSource for the upload id.
upload_key == <<Str(<<"custom_upload">>), Str(<<"u1">>)>>

\* CustomUploadSource.load_file with persist and a cache manager.
LoadFile ==
    /\ MayBegin
    /\ handled' = handled + 1
    /\ StoreBecomes(StoreSet(TheStore, "custom_upload", upload_key,
                             Result("custom_upload")))
    /\ reply' = Reply("load_file", <<"u1">>, 200, Result("custom_upload"))
    /\ UNCHANGED pending
    /\ UNCHANGED <<fragilityVars, hbomVars>>

\* CustomUploadSource.load_from_cache: status 200 stands for True, 404
\* for False.
LoadFromCache ==
    /\ MayBegin
    /\ handled' = handled + 1
    /\ LET cached_data == StoreGet(TheStore, "custom_upload", upload_key)
       IN  /\ StoreBecomes(cached_data.store)
           /\ reply' = Reply("load_from_cache", <<"u1">>,
                             IF Truthy(cached_data.obj) THEN 200 ELSE 404,
                             cached_data.obj)
    /\ UNCHANGED pending
    /\ UNCHANGED <<fragilityVars, hbomVars>>

\* CacheClimateSource.get_prepared_data: the first dict with "variables"
\* among cache.mem.items(), every item met being read.
GetPreparedData ==
    /\ MayBegin
    /\ handled' = handled + 1
    /\ LET first == FirstClimate(cache_data)
       IN  /\ cache_order' =
                  Scanned(cache_order, cache_data,
                          IF first = 0 THEN Len(cache_data) ELSE first)
           /\ reply' = Reply("get_prepared_data", <<>>, 0,
                             IF first = 0 THEN None
                             ELSE cache_data[first].obj)
    /\ UNCHANGED <<cache_data, cache_disk, plain_map, pending>>
    /\ UNCHANGED <<fragilityVars, hbomVars>>

NextRouter ==
    \/ GetClimate
    \/ FragilityTimeseries
    \/ ComputeFragility
    \/ Answer
    \/ Demographics
    \/ Projection
    \/ LoadFile
    \/ LoadFromCache
    \/ GetPreparedData
    \/ Restart

SpecRouter == InitCache /\ [][NextRouter]_vars

(***************************************************************************)
(* Properties.                                                             *)
(***************************************************************************)
SetOf(s) == {s[i] : i \in 1..Len(s)}

Children(u) == {c \in Nodes : parent[c] = u}

Descendants(u) == {d \in Nodes : u \in Ancestors(parent, d)}

\* a >= b on doubles.
Ge(a, b) == a = b \/ Gt(a, b)

\* The product of 1 - c.pof_by_var.get(v, 0.0) over a set of nodes.
RECURSIVE SurvivalOver(_, _)
SurvivalOver(S, v) ==
    IF S = {} THEN One
    ELSE LET c == CHOOSE d \in S : TRUE
         IN  Mul(OneMinus(Get(pof_by_var[c], v, Zero)),
                 SurvivalOver(S \ {c}, v))

\* The variables a node's combination ranges over.
UnionVars(u) ==
    DOMAIN own_pof_by_var[u] \cup UNION {DOMAIN pof_by_var[c] : c \in Children(u)}

\* C1: once a node is combined, its pof_by_var has exactly the variables of
\* its own PoF map and of its direct children's pof_by_var, and for each
\* of them the value 1 - (1 - own(v)) * PRODUCT over the children c of
\* (1 - c.pof_by_var.get(v, 0.0)), own(v) being 0.0 without an own curve.
C1_SeriesFormula ==
    \A u \in has_pof :
        /\ DOMAIN pof_by_var[u] = UnionVars(u)
        /\ \A v \in UnionVars(u) :
               pof_by_var[u][v] =
                   OneMinus(Mul(OneMinus(Get(own_pof_by_var[u], v, Zero)),
                                SurvivalOver(Children(u), v)))

\* A node with own PoF 1/2 and two children of PoF 1/2 each has 7/8.
C1_Witness ==
    /\ status = "done"
    /\ \E u \in Nodes :
           /\ Cardinality(Children(u)) = 2
           /\ "tas" \in DOMAIN own_pof_by_var[u]
           /\ own_pof_by_var[u]["tas"] = Half
           /\ \A c \in Children(u) : Get(pof_by_var[c], "tas", Zero) = Half
           /\ pof_by_var[u]["tas"] = Norm(7, 3)

\* 1 - PRODUCT over the children of (1 - child PoF): the children's
\* aggregated PoF.
ChildCombined(u, v) == OneMinus(SurvivalOver(Children(u), v))

\* C2: for a combined node and a variable v, when own(v) and the children's
\* PoF for v lie in [0,1], combined(v) >= max(own(v), child_combined(v)).
C2_SeriesNeverDecreases ==
    \A u \in has_pof :
        \A v \in DOMAIN pof_by_var[u] :
            (/\ InUnit(Get(own_pof_by_var[u], v, Zero))
             /\ \A c \in Children(u) : InUnit(Get(pof_by_var[c], v, Zero)))
            => /\ Ge(pof_by_var[u][v], Get(own_pof_by_var[u], v, Zero))
               /\ Ge(pof_by_var[u][v], ChildCombined(u, v))

\* Every series of the dataset holds finite non-negative numbers only.
FiniteData ==
    \A g \in 1..Len(all_grid_data) :
        \A v \in DOMAIN all_grid_data[g].climate :
            \A t \in 1..Len(all_grid_data[g].climate[v].vals) :
                all_grid_data[g].climate[v].vals[t] \in Intensities

\* Every probability written on the tree so far lies in [0,1].
AllInUnit ==
    /\ \A u \in has_curves :
           \A v \in DOMAIN fragility_curves[u] :
               \A g \in 1..Len(fragility_curves[u][v]) :
                   /\ InUnit(fragility_curves[u][v][g].final_pof)
                   /\ \A t \in 1..Len(fragility_curves[u][v][g].fc_values) :
                          InUnit(fragility_curves[u][v][g].fc_values[t])
    /\ \A u \in has_pof :
           /\ InUnit(pof[u])
           /\ \A v \in DOMAIN pof_by_var[u] : InUnit(pof_by_var[u][v])

\* C3: on a dataset of finite non-negative numbers, with numeric
\* parameters, every fc_values element, final_pof, pof_by_var value and
\* pof of the tree lies in [0,1] and none is NaN or infinite.
C3_RangeInvariant == FiniteData => AllInUnit

\* An evaluation at node d yielded NaN.
YieldsNaN(d) ==
    /\ d \in has_curves
    /\ \E v \in DOMAIN fragility_curves[d] :
           \E g \in 1..Len(fragility_curves[d][v]) :
               \E t \in 1..Len(fragility_curves[d][v][g].fc_values) :
                   IsNaN(fragility_curves[d][v][g].fc_values[t])

\* C4: a NaN produced by the evaluation at a node never reaches an
\* ancestor: an ancestor whose own evaluation is free of NaN has no NaN
\* pof_by_var value and no NaN pof.
C4_NaNNeverPropagates ==
    \A u \in has_pof :
        (~YieldsNaN(u) /\ \E d \in Descendants(u) : YieldsNaN(d))
        => /\ ~IsNaN(pof[u])
           /\ \A v \in DOMAIN pof_by_var[u] : ~IsNaN(pof_by_var[u][v])

\* The leaf computation of u has run over every targeted variable and
\* every grid cell.
CurvesEvaluated(u) ==
    Evaluates(hazards[u])
    => /\ u \in has_curves
       /\ \A v \in DOMAIN fragility_curves[u] :
              Len(fragility_curves[u][v]) = Len(all_grid_data)

\* What a frame has read from the subcomponents it has returned from is
\* their pof_by_var after their combine step.
ReadsAfterCombine ==
    \A i \in 1..Len(stack) :
        stack[i].node # 0 =>
            \A j \in 1..Len(stack[i].child_pofs) :
                /\ Subcomponents(stack[i].node)[j] \in has_pof
                /\ stack[i].child_pofs[j] =
                       pof_by_var[Subcomponents(stack[i].node)[j]]

\* The combine step of u runs in this step.
Combines(u) == u \notin has_pof /\ u \in has_pof'

\* C5: post-order.  The combine step of a node runs only once every direct
\* child has been visited and combined and the node's own curves are
\* evaluated, on the children's final pof_by_var, which do not change
\* afterwards; a parent never holds a child's pof_by_var read before the
\* child's combine step.
C5_PostOrder ==
    /\ []ReadsAfterCombine
    /\ [][\A u \in Nodes :
              /\ Combines(u) =>
                     /\ Children(u) \subseteq has_pof
                     /\ CurvesEvaluated(u)
                     /\ Len(Top.child_pofs) = Len(Subcomponents(u))
              /\ u \in has_pof =>
                     /\ u \in has_pof'
                     /\ pof_by_var'[u] = pof_by_var[u]]_vars

\* A node with two children has combined, the tree being computed.
C5_Witness ==
    /\ status = "done"
    /\ \E u \in Nodes :
           /\ Cardinality(Children(u)) = 2
           /\ Evaluates(hazards[u])
           /\ \E c \in Children(u) : DOMAIN pof_by_var[c] # {}

\* m is a maximum of the doubles in S: one of them, and none is greater.
IsMaxOf(m, S) == m \in S /\ \A e \in S : ~Gt(e, m)

\* C6: every grid curve has final_pof equal to the last element of its
\* fc_values, and the own (pre-combination) PoF of an evaluated variable is
\* the maximum final_pof over the grid cells, 0.0 without grid cells.
C6_GridReduction ==
    \A u \in has_curves :
        \A v \in DOMAIN fragility_curves[u] :
            LET grids == fragility_curves[u][v]
            IN  /\ \A g \in 1..Len(grids) :
                       grids[g].final_pof =
                           grids[g].fc_values[Len(grids[g].fc_values)]
                /\ v \in DOMAIN own_pof_by_var[u]
                /\ IF Len(grids) = 0 THEN own_pof_by_var[u][v] = Zero
                   ELSE IsMaxOf(own_pof_by_var[u][v],
                                {grids[g].final_pof : g \in 1..Len(grids)})

\* A later grid cell holds the maximum, above the first one's final_pof.
C6_Witness ==
    \E u \in has_curves :
        \E v \in DOMAIN fragility_curves[u] :
            LET grids == fragility_curves[u][v]
            IN  /\ Len(grids) >= 2
                /\ Gt(grids[2].final_pof, grids[1].final_pof)
                /\ own_pof_by_var[u][v] = grids[2].final_pof

\* The grid cell's series for v is missing, null or empty.
NoSeries(g, v) ==
    \/ v \notin DOMAIN all_grid_data[g].climate
    \/ all_grid_data[g].climate[v].isNone
    \/ Len(all_grid_data[g].climate[v].vals) = 0

\* C7: a grid cell whose series is missing, null or empty gets the curve
\* fc_values = [0.0], final_pof = 0.0 without a call of the distribution
\* function; the other cells are evaluated all the same and the traversal
\* goes on to every node.
C7_EmptySeries ==
    /\ \A u \in has_curves :
           \A v \in DOMAIN fragility_curves[u] :
               /\ Len(fragility_curves[u][v]) = Len(all_grid_data)
               /\ \A g \in 1..Len(all_grid_data) :
                      IF NoSeries(g, v)
                      THEN /\ fragility_curves[u][v][g].fc_values = <<Zero>>
                           /\ fragility_curves[u][v][g].final_pof = Zero
                           /\ <<u, v, g>> \notin dist_calls
                      ELSE /\ <<u, v, g>> \in dist_calls
                           /\ Len(fragility_curves[u][v][g].fc_values) =
                                  Len(all_grid_data[g].climate[v].vals)
    /\ status = "done" => has_pof = Nodes

\* A cell without a series comes before a cell with one, and a node
\* follows in the traversal.
C7_Witness ==
    /\ status = "done"
    /\ \E u \in has_curves :
           /\ Children(u) # {}
           /\ \E v \in DOMAIN fragility_curves[u] :
                  /\ Len(all_grid_data) >= 2
                  /\ NoSeries(1, v)
                  /\ <<u, v, 2>> \in dist_calls

VarSet == SetOf(climate_vars)

\* The variables a binding targets among the dataset's.
Targeted(b) ==
    IF b.climate_variable # "" THEN {b.climate_variable} \cap VarSet
    ELSE VarSet

\* C8: a node with a non-inherit binding has fragility_curves keys, and own
\* PoF keys, only for the binding's climate_variable (none when that is not
\* a variable of the dataset), or one per dataset variable when the
\* binding names none; any other variable of its pof_by_var comes from a
\* child.
C8_VariableRestriction ==
    \A u \in Nodes :
        (Evaluates(hazards[u]) /\ (u \in has_pof \/ u \in has_curves))
        => /\ u \in has_curves
           /\ DOMAIN fragility_curves[u] = Targeted(hazards[u])
           /\ DOMAIN own_pof_by_var[u] = Targeted(hazards[u])
           /\ u \in has_pof =>
                  \A v \in DOMAIN pof_by_var[u] \ Targeted(hazards[u]) :
                      \E c \in Children(u) : v \in DOMAIN pof_by_var[c]

\* A node restricted to "tas" over the variables tas and hurs, with "hurs"
\* reaching its pof_by_var from a child.
C8_Witness ==
    \E u \in has_pof :
        /\ hazards[u].climate_variable = "tas"
        /\ climate_vars = <<"tas", "hurs">>
        /\ DOMAIN fragility_curves[u] = {"tas"}
        /\ "hurs" \in DOMAIN pof_by_var[u]

\* The binding is "inherit", or the node has no binding for the hazard.
InheritOrNone(b) == ~b.present \/ b.fragility_model = "inherit"

\* C9: a node with an inherit binding or no binding gets no distribution
\* evaluation and no fragility_curves, contributes own(v) = 0.0 and has
\* the pure series aggregation of its direct children as pof_by_var: the
\* empty map and pof = 0.0 without children.
C9_InheritPassThrough ==
    \A u \in has_pof :
        InheritOrNone(hazards[u])
        => /\ u \notin has_curves
           /\ \A c \in dist_calls : c[1] # u
           /\ own_pof_by_var[u] = EmptyMap
           /\ DOMAIN pof_by_var[u] =
                  UNION {DOMAIN pof_by_var[c] : c \in Children(u)}
           /\ \A v \in DOMAIN pof_by_var[u] :
                  pof_by_var[u][v] = ChildCombined(u, v)
           /\ Children(u) = {} => pof_by_var[u] = EmptyMap /\ pof[u] = Zero

\* An inherit node over two children of PoF 1/2 each has 3/4.
C9_Witness ==
    \E u \in has_pof :
        /\ hazards[u].fragility_model = "inherit"
        /\ Cardinality(Children(u)) = 2
        /\ "tas" \in DOMAIN pof_by_var[u]
        /\ \A c \in Children(u) : Get(pof_by_var[c], "tas", Zero) = Half
        /\ pof_by_var[u]["tas"] = Norm(3, 2)

\* What grid cell g contributes to variable v of node u at time index t.
CellAt(u, v, g, t) ==
    IF t =< Len(fragility_curves[u][v][g].fc_values)
    THEN fragility_curves[u][v][g].fc_values[t]
    ELSE Zero

\* C10: every series compute_timeseries returns has len(times) elements,
\* the one at index t being the maximum over the variable's grid cells of
\* fc_values[t], with 0.0 for a cell whose fc_values is too short.
C10_TimeSeries ==
    status = "returned" =>
        \A u \in DOMAIN frag_ts :
            \A v \in DOMAIN frag_ts[u] :
                /\ Len(frag_ts[u][v]) = nTimes
                /\ \A t \in 1..nTimes :
                       IsMaxOf(frag_ts[u][v][t],
                               {CellAt(u, v, g, t) :
                                   g \in 1..Len(fragility_curves[u][v])})

\* A returned series where a cell too short for the last time index stands
\* beside one that is long enough.
C10_Witness ==
    /\ status = "returned"
    /\ \E u \in DOMAIN frag_ts :
           \E v \in DOMAIN frag_ts[u] :
               /\ nTimes >= 2
               /\ \E g \in 1..Len(fragility_curves[u][v]) :
                      /\ Len(fragility_curves[u][v][g].fc_values) < nTimes
                      /\ fragility_curves[u][v][g].final_pof # Zero
               /\ \E g \in 1..Len(fragility_curves[u][v]) :
                      Len(fragility_curves[u][v][g].fc_values) = nTimes

\* C11: the map compute_timeseries returns has a key for a node exactly
\* when the node, at any depth, ended the computation with a non-empty
\* fragility_curves, that is when its binding is evaluated and targets at
\* least one variable of the dataset; a node with an inherit binding or no
\* binding has a pof and no key.
C11_TimeSeriesKeys ==
    status = "returned"
    => /\ DOMAIN frag_ts =
              {u \in Nodes : /\ u \in has_curves
                             /\ DOMAIN fragility_curves[u] # {}}
       /\ \A u \in Nodes :
              u \in DOMAIN frag_ts
              <=> (Evaluates(hazards[u]) /\ Targeted(hazards[u]) # {})
       /\ \A u \in Nodes :
              InheritOrNone(hazards[u])
              => (u \in has_pof /\ u \notin DOMAIN frag_ts)

\* A node below the roots has a key while its inherit parent, whose pof is
\* not 0.0, has none.
C11_Witness ==
    /\ status = "returned"
    /\ \E u \in Nodes :
           /\ parent[u] # 0
           /\ u \in DOMAIN frag_ts
           /\ InheritOrNone(hazards[parent[u]])
           /\ pof[parent[u]] # Zero
           /\ parent[u] \notin DOMAIN frag_ts

\* C12: compute_for_tree and compute_timeseries return for every tree,
\* hazard and dataset of the documented shape: no request ends raising.
C12_NeverRaises == status # "raised"

UnknownModel(b) ==
    /\ Evaluates(b)
    /\ b.fragility_model \notin {"lognormal", "weibull", "logistic"}

\* C13: a node whose binding names a model that is not lognormal, weibull
\* or logistic gets, for every grid cell with a non-empty series, fc_values
\* of as many zeros as the series has entries, and 0.0 as own PoF of every
\* targeted variable; the traversal goes on, so that at the end of
\* compute_for_tree every node, the node's subcomponents and siblings
\* included, has its pof.
C13_UnknownModel ==
    /\ \A u \in has_curves :
           UnknownModel(hazards[u])
           => /\ DOMAIN own_pof_by_var[u] = Targeted(hazards[u])
              /\ \A v \in DOMAIN own_pof_by_var[u] : own_pof_by_var[u][v] = Zero
              /\ \A v \in DOMAIN fragility_curves[u] :
                     \A g \in 1..Len(all_grid_data) :
                         ~NoSeries(g, v)
                         => fragility_curves[u][v][g].fc_values =
                                [t \in 1..Len(all_grid_data[g].climate[v].vals)
                                    |-> Zero]
    /\ status = "done"
       => \A u \in Nodes :
              /\ u \in has_pof
              /\ Evaluates(hazards[u]) => u \in has_curves

\* compute_for_tree is done on a tree in which a node with an unknown model
\* and a targeted non-empty series has a subcomponent that was evaluated to
\* a PoF other than 0.0.
C13_Witness ==
    /\ status = "done"
    /\ \E u \in Nodes, c \in Nodes :
           /\ UnknownModel(hazards[u])
           /\ parent[c] = u
           /\ c \in has_curves
           /\ pof[c] # Zero
           /\ pof[u] = pof[c]
           /\ \E v \in DOMAIN fragility_curves[u] :
                  \E g \in 1..Len(all_grid_data) :
                      /\ ~NoSeries(g, v)
                      /\ Len(fragility_curves[u][v][g].fc_values) = 2

(***************************************************************************)
(* Properties of the reconstruction.                                       *)
(***************************************************************************)
FlatUuids == {flat_nodes[i].uuid : i \in 1..Len(flat_nodes)}

\* The nodes reachable from a set of nodes through subcomponents.
RECURSIVE ReachFrom(_)
ReachFrom(S) ==
    LET T == S \cup UNION {SetOf(node_map[u].subcomponents) : u \in S}
    IN  IF T = S THEN S ELSE ReachFrom(T)

\* The nodes of the returned structure.
Returned == ReachFrom(SetOf(roots))

\* The nodes below a node.
Below(u) == ReachFrom(SetOf(node_map[u].subcomponents))

\* The places of the returned structure a node is a subcomponent at.
PlacesOf(u) ==
    UNION {{<<p, i>> : i \in {k \in 1..Len(node_map[p].subcomponents) :
                                 node_map[p].subcomponents[k] = u}} :
              p \in Returned}

\* C14: the structure reconstruct_tree returns for records with unique
\* uuids is a forest: a node is a subcomponent at one place at most, and a
\* root at none.
C14_Forest ==
    hbom_status = "returned"
    => \A u \in Returned :
           /\ Cardinality(PlacesOf(u)) =< 1
           /\ u \in SetOf(roots) => PlacesOf(u) = {}

\* C15: reconstruct_tree never returns a structure in which a node is its
\* own descendant.
C15_CycleRejected ==
    hbom_status = "returned" => \A u \in Returned : u \notin Below(u)

\* The positions in curve_docs of the documents of component u and hazard h.
DocsFor(u, h) ==
    {i \in 1..Len(curve_docs) :
        /\ curve_docs[i].component_uuid = u
        /\ HazardOf(curve_docs[i]) = h}

First(S) == CHOOSE i \in S : \A j \in S : i =< j

\* C16: after the merge a node has a binding for a hazard exactly when some
\* document names the node and the hazard, and the binding has the fields
\* of the first such document of the list, whatever priority or conditions
\* that document and the later ones carry.
C16_FirstDocWins ==
    hbom_status = "returned"
    => \A u \in DOMAIN node_map :
           /\ \A h \in HazardNames \cup {"Unknown"} :
                  h \in DOMAIN node_map[u].hazards <=> DocsFor(u, h) # {}
           /\ \A h \in DOMAIN node_map[u].hazards :
                  LET doc == curve_docs[First(DocsFor(u, h))]
                      binding == node_map[u].hazards[h]
                  IN  /\ binding.fragility_model = doc.model
                      /\ binding.fragility_params = doc.parameters
                      /\ binding.climate_variable = doc.climate_variable
                      /\ binding.conditions = doc.conditions
                      /\ binding.priority =
                             (IF doc.priority = Null THEN 0 ELSE doc.priority)
                      /\ binding.source = doc.source

\* A node has two documents of one hazard, the later one with the higher
\* priority, and a document of another hazard: it has both bindings, the
\* first hazard's from the earlier document.
C16_Witness ==
    /\ hbom_status = "returned"
    /\ \E u \in DOMAIN node_map, h \in HazardNames :
           /\ \E i, j \in DocsFor(u, h) :
                  /\ i < j
                  /\ curve_docs[i].priority = Null
                  /\ curve_docs[j].priority = 5
                  /\ curve_docs[i].conditions # curve_docs[j].conditions
           /\ node_map[u].hazards[h].fragility_model = "logistic"
           /\ node_map[u].hazards[h].priority = 0
           /\ \E h2 \in HazardNames \ {h} : h2 \in DOMAIN node_map[u].hazards

\* C17: the returned roots are exactly the records whose parent_uuid is
\* null or absent, each once, and no node carries a parent_uuid or
\* children_uuids key any more.
C17_Roots ==
    hbom_status \in {"returned", "filtered"}
    => /\ SetOf(roots) =
              {flat_nodes[i].uuid :
                  i \in {j \in 1..Len(flat_nodes) :
                            flat_nodes[j].parent_uuid = NoUuid}}
       /\ Cardinality(SetOf(roots)) = Len(roots)
       /\ \A u \in DOMAIN node_map : node_map[u].keys = {}

\* A record without parent_uuid that another record lists as a child is a
\* root, and a record with a parent_uuid that no record lists is not.
C17_Witness ==
    /\ hbom_status = "returned"
    /\ \E r \in SetOf(roots) :
           \E p \in DOMAIN node_map : r \in SetOf(node_map[p].subcomponents)
    /\ \E u \in DOMAIN node_map \ SetOf(roots) :
           \A p \in DOMAIN node_map : u \notin SetOf(node_map[p].subcomponents)

\* C18: a node's subcomponents are the nodes of the entries of its
\* children_uuids that are uuids of the flat set, in the same order, the
\* other entries being dropped; and a document whose component_uuid is not
\* a uuid of the flat set leaves no binding anywhere.
C18_DanglingDropped ==
    hbom_status = "returned"
    => /\ DOMAIN node_map = FlatUuids
       /\ \A i \in 1..Len(flat_nodes) :
              node_map[flat_nodes[i].uuid].subcomponents =
                  SelectSeq(flat_nodes[i].children_uuids,
                            LAMBDA c : c \in FlatUuids)
       /\ \A u \in DOMAIN node_map :
              \A h \in DOMAIN node_map[u].hazards :
                  \E i \in 1..Len(curve_docs) :
                      curve_docs[i].component_uuid = u

\* A record lists an unknown uuid before a known one and gets the known
\* node alone, while a document names an unknown component.
C18_Witness ==
    /\ hbom_status = "returned"
    /\ \E i \in 1..Len(flat_nodes) :
           /\ Len(flat_nodes[i].children_uuids) = 2
           /\ flat_nodes[i].children_uuids[1] \notin FlatUuids
           /\ node_map[flat_nodes[i].uuid].subcomponents =
                  <<flat_nodes[i].children_uuids[2]>>
    /\ \E i \in 1..Len(curve_docs) :
           curve_docs[i].component_uuid \notin FlatUuids \cup {NoUuid}
    /\ \E u \in DOMAIN node_map : DOMAIN node_map[u].hazards # {}

\* C19: the hazard filter with hazard h leaves the roots and every node's
\* subcomponents as they were, and leaves in every node's hazards the
\* binding of h alone, unmodified.
C19_FilterFrame ==
    [][(hbom_status = "returned" /\ hbom_status' = "filtered")
       => /\ roots' = roots
          /\ DOMAIN node_map' = DOMAIN node_map
          /\ \A u \in Returned :
                 /\ node_map'[u].subcomponents = node_map[u].subcomponents
                 /\ DOMAIN node_map'[u].hazards =
                        DOMAIN node_map[u].hazards \cap {filter_hazard'}
                 /\ \A h \in DOMAIN node_map'[u].hazards :
                        node_map'[u].hazards[h] = node_map[u].hazards[h]]_vars

\* After a filter a root that had a binding of another hazard only has no
\* binding and still has its subcomponent, which kept its binding of the
\* filter's hazard.
C19_Witness ==
    /\ hbom_status = "filtered"
    /\ \E u \in SetOf(roots) :
           /\ DOMAIN node_map[u].hazards = {}
           /\ \E h \in HazardNames \ {filter_hazard} : DocsFor(u, h) # {}
           /\ \E c \in SetOf(node_map[u].subcomponents) :
                  DOMAIN node_map[c].hazards = {filter_hazard}

\* flat_nodes holds the records of the forest par of n nodes, in some order.
IsFlattened(n, par) ==
    /\ Len(flat_nodes) = n
    /\ SetOf(flat_nodes) = SetOf(Flatten(n, par))

\* C20: reconstructing the flat records of a forest, given in any order,
\* yields the forest: the same set of roots and, for every node, the same
\* subcomponents.
C20_RoundTrip ==
    hbom_status = "returned"
    => \A n \in 1..MaxRecs :
           \A par \in Forests(n) :
               IsFlattened(n, par)
               => /\ SetOf(roots) = {u \in 1..n : par[u] = 0}
                  /\ Len(roots) = Cardinality(SetOf(roots))
                  /\ DOMAIN node_map = 1..n
                  /\ \A u \in 1..n :
                         node_map[u].subcomponents =
                             SelectSeq([i \in 1..n |-> i],
                                       LAMBDA i : par[i] = u)

\* The records of a forest of three nodes on two levels were given with a
\* leaf first and the root last.
C20_Witness ==
    /\ hbom_status = "returned"
    /\ \E par \in Forests(3) :
           /\ IsFlattened(3, par)
           /\ \E u \in 1..3 : par[u] # 0 /\ par[par[u]] # 0
           /\ flat_nodes[1].children_uuids = <<>>
           /\ flat_nodes[3].parent_uuid = NoUuid
           /\ Len(roots) = 1

(***************************************************************************)
(* Properties of repeated calls.                                           *)
(***************************************************************************)
\* The own PoF map of node u in a call on an un-annotated copy of the tree.
FreshOwn(u) ==
    IF Evaluates(hazards[u]) THEN OwnPofByVar(CurvesByVar(hazards[u]))
    ELSE EmptyMap

\* The pof_by_var of node u in a call on an un-annotated copy of the tree.
RECURSIVE FreshPofByVar(_)
FreshPofByVar(u) ==
    CombinedPofByVar(
        FreshOwn(u),
        [i \in 1..Len(Subcomponents(u)) |->
            FreshPofByVar(Subcomponents(u)[i])])

\* C21: when a call is done, every node's pof_by_var, pof and
\* fragility_curves, and the time-series map once returned, are those of a
\* call with the same arguments on an un-annotated copy of the tree,
\* however many calls with whatever datasets annotated the tree before.
C21_NoStateBetweenCalls ==
    status \in {"done", "returned"}
    => /\ \A u \in Nodes :
              /\ pof_by_var[u] = FreshPofByVar(u)
              /\ pof[u] \in {TopLevelPof(FreshPofByVar(u), o) :
                                 o \in Orders(DOMAIN FreshPofByVar(u))}
              /\ u \in has_curves <=> Evaluates(hazards[u])
              /\ fragility_curves[u] =
                     (IF Evaluates(hazards[u]) THEN CurvesByVar(hazards[u])
                      ELSE EmptyMap)
       /\ status = "returned"
          => frag_ts =
                 [u \in {w \in Nodes : /\ Evaluates(hazards[w])
                                       /\ Targeted(hazards[w]) # {}} |->
                     ExtractSeries(CurvesByVar(hazards[u]))]

\* A second call has returned on a tree whose first call left curves of a
\* variable the second dataset does not have: the node has no curves now.
C21_Witness ==
    /\ status = "returned"
    /\ Len(earlier) = 1
    /\ \E u \in has_curves :
           /\ hazards[u].climate_variable \in SetOf(earlier[1].variables)
           /\ Len(earlier[1].data) > 0
           /\ hazards[u].climate_variable \notin SetOf(climate_vars)
           /\ DOMAIN fragility_curves[u] = {}
           /\ pof[u] = Zero

(***************************************************************************)
(* Properties of the evaluator and of the written records.                 *)
(***************************************************************************)
Families == {"lognormal", "weibull", "logistic"}

\* C22: in the curves a node of one of the three families got, evaluated
\* with the node's model and parameters, a greater or equal intensity never
\* has a smaller PoF, whichever grid cells and time steps the two
\* intensities come from.
C22_Monotone ==
    \A u \in has_curves :
        hazards[u].fragility_model \in Families
        => \A v \in DOMAIN fragility_curves[u] :
               \A g1, g2 \in 1..Len(all_grid_data) :
                   (~NoSeries(g1, v) /\ ~NoSeries(g2, v))
                   => LET c1 == fragility_curves[u][v][g1]
                          c2 == fragility_curves[u][v][g2]
                      IN  \A t1 \in 1..Len(c1.x_values) :
                              \A t2 \in 1..Len(c2.x_values) :
                                  (/\ c1.x_values[t1] # Null
                                   /\ c2.x_values[t2] # Null
                                   /\ c1.x_values[t1] =< c2.x_values[t2])
                                  => Ge(c2.fc_values[t2], c1.fc_values[t1])

\* C24: after compute_for_tree every node's pof is 0.0 when its pof_by_var
\* is empty and otherwise the maximum of the values of its pof_by_var: one
\* of the values, none of the others being greater.
C24_PofIsMax ==
    status \in {"done", "returned", "raised"}
    => \A u \in Nodes :
           IF DOMAIN pof_by_var[u] = {} THEN pof[u] = Zero
           ELSE IsMaxOf(pof[u],
                        {pof_by_var[u][v] : v \in DOMAIN pof_by_var[u]})

\* A node has two variables with different values and the greater one as
\* pof.
C24_Witness ==
    /\ status = "done"
    /\ \E u \in Nodes :
           \E v, w \in DOMAIN pof_by_var[u] :
               /\ Gt(pof_by_var[u][v], pof_by_var[u][w])
               /\ pof[u] = pof_by_var[u][v]

\* C25: every grid curve record written by compute_for_tree has x_values
\* and fc_values of equal length, at least 1, whatever the model and the
\* grid cell's series; for a missing or empty series both have length 1.
C25_EqualLengths ==
    \A u \in has_curves :
        \A v \in DOMAIN fragility_curves[u] :
            \A g \in DOMAIN fragility_curves[u][v] :
                LET rec == fragility_curves[u][v][g]
                IN  /\ Len(rec.x_values) = Len(rec.fc_values)
                    /\ Len(rec.fc_values) >= 1
                    /\ NoSeries(g, v) => Len(rec.fc_values) = 1

\* One call wrote a record of an unknown model over a series of two values
\* and a record for a grid cell without series for the variable.
C25_Witness ==
    /\ status = "done"
    /\ \E u \in has_curves :
           /\ UnknownModel(hazards[u])
           /\ \E v \in DOMAIN fragility_curves[u] :
                  \E g \in DOMAIN fragility_curves[u][v] :
                      Len(fragility_curves[u][v][g].fc_values) = 2
    /\ \E u \in has_curves :
           \E v \in DOMAIN fragility_curves[u] :
               \E g \in DOMAIN fragility_curves[u][v] : NoSeries(g, v)

\* C26: compute_for_tree returns the very tree object it was given and
\* changes on it only pof, pof_by_var and the fragility_curves of the
\* requested hazard's binding, plus an empty hazards map on a node that had
\* none: no step changes the tree's shape and order, the requested binding's
\* fragility_model, fragility_params or climate_variable, any binding of
\* any other hazard, or the prepared dataset; a hazards map a node has is
\* never taken away, one that is created is empty; fragility_curves is
\* written only on a node whose binding is evaluated; and the object
\* returned is the object passed.
C26_Frame ==
    [][/\ nNodes' = nNodes
       /\ parent' = parent
       /\ hazards' = hazards
       /\ <<climate_vars, nTimes, all_grid_data>>' =
              <<climate_vars, nTimes, all_grid_data>>
       /\ \A u \in Nodes :
              /\ hazards_dict'[u].others = hazards_dict[u].others
              /\ hazards_dict[u].present => hazards_dict'[u].present
              /\ ~hazards_dict[u].present /\ hazards_dict'[u].present
                 => /\ hazards_dict'[u].others = EmptyMap
                    /\ ~hazards'[u].present
       /\ \A u \in Nodes :
              \/ /\ fragility_curves'[u] = fragility_curves[u]
                 /\ (u \in has_curves') = (u \in has_curves)
              \/ Evaluates(hazards[u])
       /\ hbom_tree' = hbom_tree
       /\ returned' \in {returned, hbom_tree}
       /\ status' = "done" => returned' = hbom_tree]_vars

\* A call has returned the tree it was given, on which one node that
\* carries a binding of another hazard got fragility_curves and another,
\* which had no hazards map, got the map, pof and pof_by_var.
C26_Witness ==
    /\ status = "done"
    /\ returned = hbom_tree
    /\ \E u \in has_curves : hazards_dict[u].others # EmptyMap
    /\ \E u \in Nodes \ has_curves :
           /\ hazards_dict[u].created
           /\ hazards_dict[u].present
           /\ u \in has_pof

\* Every grid cell carries for v a series of the length of the time axis.
FullSeries(v) ==
    \A g \in 1..Len(all_grid_data) :
        /\ ~NoSeries(g, v)
        /\ Len(all_grid_data[g].climate[v].vals) = nTimes

\* C27: when every grid cell's series for a variable v has the length of a
\* non-empty time axis, the last element of a node's time series for v is
\* the node's own grid-reduced PoF, is not greater than the node's combined
\* pof_by_var[v], and equals pof_by_var[v] at a node without subcomponents.
C27_ViewsAgree ==
    status = "returned"
    => \A u \in DOMAIN frag_ts :
           \A v \in DOMAIN frag_ts[u] :
               nTimes > 0 /\ FullSeries(v)
               => LET last == frag_ts[u][v][nTimes]
                  IN  /\ last = own_pof_by_var[u][v]
                      /\ Ge(pof_by_var[u][v], last)
                      /\ Children(u) = {} => last = pof_by_var[u][v]

\* The record of the flat list with uuid u.
FlatRecord(u) ==
    flat_nodes[CHOOSE i \in 1..Len(flat_nodes) : flat_nodes[i].uuid = u]

\* Following parent_uuid from u reaches, within n steps, a record whose
\* parent_uuid is null, every uuid met being one of the flat list.
RECURSIVE ReachesRoot(_, _)
ReachesRoot(u, n) ==
    /\ u \in FlatUuids
    /\ \/ FlatRecord(u).parent_uuid = NoUuid
       \/ /\ n > 0
          /\ FlatRecord(u).parent_uuid # u
          /\ ReachesRoot(FlatRecord(u).parent_uuid, n - 1)

\* Unique uuids, and every parent_uuid null or leading to a root.
WellParented ==
    /\ Cardinality(FlatUuids) = Len(flat_nodes)
    /\ \A u \in FlatUuids : ReachesRoot(u, Len(flat_nodes))

\* C30: for a flat list with unique uuids in which every parent_uuid is
\* null or the uuid of another record and leads to a root, every record is
\* reachable from the returned roots at exactly one place (as a root or as
\* a subcomponent) and is a subcomponent of the node its parent_uuid
\* names, whether or not that record's children_uuids lists it.
C30_NoRecordLost ==
    hbom_status = "returned" /\ WellParented
    => \A u \in FlatUuids :
           /\ u \in Returned
           /\ Cardinality(PlacesOf(u))
                  + Cardinality({i \in 1..Len(roots) : roots[i] = u}) = 1
           /\ FlatRecord(u).parent_uuid # NoUuid
                  => u \in SetOf(node_map[FlatRecord(u).parent_uuid].subcomponents)

\* C23: the two-tier cache behaves as a plain map: after any sequence of
\* set, get, clear and restart, get of every (kind, key) pair returns the
\* object of the most recent set of that pair since the last clear, None
\* when there was none, however many other pairs were set in between, and
\* the get that was just answered returned that object.
C23_PlainMap ==
    /\ \A p \in CachePairs :
           cache_get(TheCache, p[1], p[2]).obj = Lookup(plain_map, p[1], p[2])
    /\ reply.op = "get" => reply.obj = Lookup(plain_map, reply.key[1], reply.key[2])

\* A get has just been answered from disk: its pair is set to another object
\* than the pairs now first in memory, more pairs than the memory holds
\* are set, and the answered pair is back in memory.
C23_Witness ==
    /\ reply.op = "get"
    /\ reply.obj # None
    /\ Cardinality(DOMAIN plain_map) > mem_size
    /\ Len(cache_data) = mem_size
    /\ cache_data[Len(cache_data)].h = _hash_key(reply.key[1], reply.key[2])
    /\ cache_data[1].obj # reply.obj
    /\ reply.key = <<"climate", <<Str(<<"a", "'", ",", " ", "'", "b">>)>>>>
    /\ <<"climate", <<Str(<<"a">>), Str(<<"b">>)>>>> \in DOMAIN plain_map
    /\ plain_map[<<"climate", <<Str(<<"a">>), Str(<<"b">>)>>>>] # reply.obj

\* C28: after every successful get-climate request for a hazard, answered
\* by a fresh fetch or from the cache, the dataset stored under
\* ("climate_latest", hazard) is the dataset the request returned.
C28_LatestIsReturned ==
    reply.op = "get-climate" /\ reply.status = 200
    => LatestFor(reply.key[1]) = reply.obj

\* C29: a compute request for a hazard that computes does so on the
\* dataset a time-series request for that hazard would have used at the
\* moment the request read the cache, a dataset fetched for that hazard,
\* and the request answers 400 when no dataset had been loaded for the
\* hazard.
C29_ComputeUsesHazardDataset ==
    reply.op = "compute"
    => /\ reply.status = 200
          => /\ reply.obj = reply.latest
             /\ reply.obj.hazard = reply.key[1]
       /\ ~Truthy(reply.latest) => reply.status = 400

====
